---- MODULE Spec2Model ----
(***************************************************************************)
(* Age-verification GAP servers (simple-gap-server.js and gap-server.js):  *)
(* the proof cache, the four POST handlers and the pure helpers behind     *)
(* them, as one state machine.  A behaviour is the life of one server      *)
(* process: which of the two servers it is, is chosen in Init.             *)
(*                                                                         *)
(* Three specifications run the same handlers on different request         *)
(* bodies: Spec (the life cycle of the cache), EligibilitySpec (the         *)
(* betting-eligibility decision) and AgeSpec (the age predicate).           *)
(*                                                                         *)
(* Conventions.                                                            *)
(*  - Time is in milliseconds since local midnight of the day the server   *)
(*    was started (epochDay); Date#toISOString / new Date(iso) round-trip  *)
(*    a millisecond value exactly, so timestamps are kept as integers.     *)
(*    The local time zone has no clock change inside the modelled days.    *)
(*  - sha256(..).digest('hex').substring(0,16) is modelled as a            *)
(*    collision-free function of its input string (sha256hex16); every     *)
(*    string that is hashed is built the way the source builds it.         *)
(*  - A JSON value is a record [t, v, s]: t is its JavaScript type, v its  *)
(*    numeric payload, s its string payload.                               *)
(***************************************************************************)
EXTENDS Integers, Sequences, FiniteSets, TLC

\* ------------------------------------------------------------------ bounds
MaxProofs == 2        \* generate-proof requests that reach the cache (Spec, ReissueSpec)
MaxEligibilityProofs == 1   \* the same, under EligibilitySpec and AgeSpec
MaxJitter == 1        \* 1 ms clock steps taken after each day boundary
MaxDays   == 1        \* whole days the clock may run
\* new Compact(...) objects one CompactAgeVerification creates (LifecycleSpec).
MaxRuntimes == 2

\* --------------------------------------------------------- JSON / JS values
Num(n)    == [t |-> "number", v |-> n, s |-> ""]
Str(x)    == [t |-> "string", v |-> 0, s |-> x]
Infinity  == [t |-> "infinity", v |-> 1, s |-> ""]   \* JSON.parse("1e999")
Undefined == [t |-> "undefined", v |-> 0, s |-> ""]  \* field absent
Null      == [t |-> "null", v |-> 0, s |-> ""]
True      == [t |-> "boolean", v |-> 1, s |-> ""]
NaN       == [t |-> "nan", v |-> 0, s |-> ""]        \* only as a ToNumber result

\* Strings of the model that parse as a decimal number (StringToNumber).
NumericStrings == {"500"}
StringNumericValue(x) == CHOOSE n \in {500} : ToString(n) = x

\* ECMAScript ToNumber.
ToNumber(x) ==
    CASE x.t = "number"    -> x
      [] x.t = "infinity"  -> x
      [] x.t = "undefined" -> NaN
      [] x.t = "null"      -> Num(0)
      [] x.t = "boolean"   -> Num(x.v)
      [] x.t = "string"    -> IF x.s = "" THEN Num(0)
                              ELSE IF x.s \in NumericStrings
                                   THEN Num(StringNumericValue(x.s))
                                   ELSE NaN
      [] OTHER             -> NaN

\* ECMAScript ToBoolean (the operand of `!` and of `||`).
Truthy(x) ==
    CASE x.t = "number"    -> x.v # 0
      [] x.t = "infinity"  -> TRUE
      [] x.t = "undefined" -> FALSE
      [] x.t = "null"      -> FALSE
      [] x.t = "boolean"   -> x.v = 1
      [] x.t = "string"    -> x.s # ""
      [] OTHER             -> FALSE

\* a < b on two ToNumber results (false as soon as one is NaN).
NumLess(a, b) ==
    IF a.t = "nan" \/ b.t = "nan" THEN FALSE
    ELSE IF a.t = "infinity" THEN (a.v < 0 /\ ~(b.t = "infinity" /\ b.v < 0))
    ELSE IF b.t = "infinity" THEN b.v > 0
    ELSE a.v < b.v

\* The relational operators of the source; no operand pair of the source is
\* string/string, so each compares ToNumber of both sides.
JsGreater(a, b)   == NumLess(ToNumber(b), ToNumber(a))
JsLessEq(a, b)    ==
    LET x == ToNumber(a)  y == ToNumber(b)
    IN  x.t # "nan" /\ y.t # "nan" /\ ~NumLess(y, x)

\* A finite number greater than 0, as a JSON number.
IsPositiveFinite(x) == x.t = "number" /\ x.v > 0

\* ------------------------------------------------------------ calendar
MsPerDay == 24 * 60 * 60 * 1000

\* Days since 1970-01-01 of the local date built by new Date(y, m - 1, d).
DaysFromCivil(y, m, d) ==
    LET yy  == IF m <= 2 THEN y - 1 ELSE y
        era == yy \div 400
        yoe == yy - era * 400
        mp  == IF m > 2 THEN m - 3 ELSE m + 9
        doy == (153 * mp + 2) \div 5 + d - 1
        doe == yoe * 365 + yoe \div 4 - yoe \div 100 + doy
    IN  era * 146097 + doe - 719468

\* <<getFullYear(), getMonth() + 1, getDate()>> of a day number.
CivilFromDays(z) ==
    LET zz  == z + 719468
        era == zz \div 146097
        doe == zz - era * 146097
        yoe == (doe - doe \div 1460 + doe \div 36524 - doe \div 146096) \div 365
        doy == doe - (365 * yoe + yoe \div 4 - yoe \div 100)
        mp  == (5 * doy + 2) \div 153
        d   == doy - (153 * mp + 2) \div 5 + 1
        m   == IF mp < 10 THEN mp + 3 ELSE mp - 9
        y   == yoe + era * 400 + (IF m <= 2 THEN 1 ELSE 0)
    IN  <<y, m, d>>

\* ------------------------------------------------------------- helpers
False == [t |-> "boolean", v |-> 0, s |-> ""]

\* createHash('sha256').update(x).digest('hex').substring(0, 16)
sha256hex16(x) == "sha(" \o x \o ")"

\* Number#toLocaleString() (en-US grouping) for 0 <= n < 1000000.
toLocaleString(n) ==
    IF n < 1000 THEN ToString(n)
    ELSE LET r == n % 1000
         IN  ToString(n \div 1000) \o ","
             \o (IF r < 10 THEN "00" ELSE IF r < 100 THEN "0" ELSE "")
             \o ToString(r)

\* simple-gap-server.js generateIdentityCommitment: the hash of the
\* template string, as 16 hex digits.
generateIdentityCommitment(birthYear, birthMonth, birthDay, identitySecret) ==
    sha256hex16(ToString(birthYear) \o "-" \o ToString(birthMonth) \o "-"
                \o ToString(birthDay) \o "-" \o identitySecret)

\* gap-server.js generateIdentityCommitment and the commitment.toString() of
\* its route: BigInt('0x' + hex16) written in decimal, a one-to-one
\* re-encoding of the 16 hex digits.
gapGenerateIdentityCommitment(birthYear, birthMonth, birthDay, identitySecret) ==
    "dec(" \o generateIdentityCommitment(birthYear, birthMonth, birthDay, identitySecret)
           \o ")"

\* calculateAge with the day comparison off by one (<= for <): the birthday
\* itself counts as not yet reached.
calculateAgeDayOffByOne(birthYear, birthMonth, birthDay, currentYear, currentMonth, currentDay) ==
    LET age == currentYear - birthYear
    IN  IF currentMonth < birthMonth
           \/ (currentMonth = birthMonth /\ currentDay <= birthDay)
        THEN age - 1
        ELSE age

\* simple-gap-server.js calculateAge.
calculateAge(birthYear, birthMonth, birthDay, currentYear, currentMonth, currentDay) ==
    LET age == currentYear - birthYear
    IN  IF currentMonth < birthMonth
           \/ (currentMonth = birthMonth /\ currentDay < birthDay)
        THEN age - 1
        ELSE age

\* gap-server.js generateZKProof, the age: Math.floor(ms / (365.25 days)),
\* the two dates being local midnights, so ms = days * MsPerDay and the
\* quotient is days / 365.25 = 4 * days / 1461.
gapAge(input) ==
    LET currentDate == DaysFromCivil(input.current_year, input.current_month, input.current_day)
        birthDate   == DaysFromCivil(input.birth_year, input.birth_month, input.birth_day)
    IN  (4 * (currentDate - birthDate)) \div 1461

\* gap-server.js generateProofHash.
generateProofHash(input, isEligible) ==
    sha256hex16(input.identity_commitment \o "-" \o isEligible \o "-"
                \o ToString(input.current_year) \o ToString(input.current_month)
                \o ToString(input.current_day))

\* gap-server.js generateZKProof (the constant groth16 body is left out).
gapGenerateZKProof(input) ==
    LET isEligible == IF gapAge(input) >= input.min_age THEN "1" ELSE "0"
    IN  [publicSignals |-> <<isEligible, generateProofHash(input, isEligible)>>]

\* generateZKProof with a proofHash that leaves Date.now() out: a repeated
\* request yields the proof, and so the id, of the earlier one.
simpleGenerateZKProofUntimed(input, dateNow) ==
    LET proofHash == sha256hex16(input.identityCommitment \o "-"
                         \o (IF input.isEligible THEN "true" ELSE "false"))
    IN  [publicSignals |-> <<IF input.isEligible THEN "1" ELSE "0", proofHash>>,
         proofHash |-> proofHash]

\* simple-gap-server.js generateZKProof; dateNow is its Date.now() read.
simpleGenerateZKProof(input, dateNow) ==
    LET proofHash == sha256hex16(input.identityCommitment \o "-"
                         \o (IF input.isEligible THEN "true" ELSE "false")
                         \o "-" \o ToString(dateNow))
    IN  [publicSignals |-> <<IF input.isEligible THEN "1" ELSE "0", proofHash>>,
         proofHash |-> proofHash]

\* JSON.stringify(proof), then generateProofId, of both servers.
JSONstringifyProof(proof) ==
    "{proof:groth16,publicSignals:[" \o proof.publicSignals[1] \o ","
        \o proof.publicSignals[2] \o "]"
        \o (IF "proofHash" \in DOMAIN proof
            THEN ",proofHash:" \o proof.proofHash ELSE "")
        \o "}"

generateProofId(proof) == sha256hex16(JSONstringifyProof(proof))

\* ---------------------------------------------------- jurisdiction rules
OwnRules ==
    [US      |-> [maxBet |-> Num(10000), minAge |-> Num(21), restricted |-> False],
     UK      |-> [maxBet |-> Num(50000), minAge |-> Num(18), restricted |-> False],
     EU      |-> [maxBet |-> Num(25000), minAge |-> Num(18), restricted |-> False],
     default |-> [maxBet |-> Num(1000),  minAge |-> Num(18), restricted |-> False]]

\* Property names every object literal inherits from Object.prototype; the
\* value found there is an object or function: truthy, without maxBet,
\* minAge or restricted.
ObjectPrototypeKeys == {"constructor", "toString", "__proto__"}
InheritedValue == [maxBet |-> Undefined, minAge |-> Undefined, restricted |-> Undefined]

\* ECMAScript ToPropertyKey of the values a jurisdiction can take here.
ToPropertyKey(x) ==
    CASE x.t = "string"    -> x.s
      [] x.t = "undefined" -> "undefined"
      [] x.t = "null"      -> "null"
      [] x.t = "number"    -> ToString(x.v)
      [] OTHER             -> "true"

\* getJurisdictionRules of both servers: rules[jurisdiction] || rules['default'].
getJurisdictionRules(jurisdiction) ==
    LET key == ToPropertyKey(jurisdiction)
    IN  IF key \in DOMAIN OwnRules THEN OwnRules[key]
        ELSE IF key \in ObjectPrototypeKeys THEN InheritedValue
        ELSE OwnRules["default"]

\* ------------------------------------------------------- response texts
ReasonInvalidAmount == "Invalid betting amount"
ReasonRestricted    == "Sports betting restricted in this jurisdiction"
ReasonApproved      == "All eligibility requirements met"
ReasonExpired       == "Age verification proof has expired"
ReasonUnderAge      == "Age verification failed - must be 18 or older"
ReasonExceedsPrefix == "Betting amount exceeds maximum allowed ("

\* The text of a defined maxBet inside the exceeds-limit reason.
simpleExceedsReason(rules) ==
    ReasonExceedsPrefix \o "$" \o toLocaleString(rules.maxBet.v) \o ")"
gapExceedsReason(rules) ==
    ReasonExceedsPrefix \o ToString(rules.maxBet.v) \o ")"

IsExceedsReason(r) ==
    \E k \in DOMAIN OwnRules :
        r \in {simpleExceedsReason(OwnRules[k]), gapExceedsReason(OwnRules[k])}

\* simple-gap-server.js checkBettingEligibility.
simpleCheckBettingEligibility(bettingAmount, rules) ==
    IF ~Truthy(bettingAmount) \/ JsLessEq(bettingAmount, Num(0))
    THEN [eligible |-> FALSE, reason |-> ReasonInvalidAmount]
    ELSE IF JsGreater(bettingAmount, rules.maxBet)
    THEN [eligible |-> FALSE, reason |-> simpleExceedsReason(rules)]
    ELSE IF Truthy(rules.restricted)
    THEN [eligible |-> FALSE, reason |-> ReasonRestricted]
    ELSE [eligible |-> TRUE, reason |-> ReasonApproved]

\* gap-server.js checkBettingEligibility.
gapCheckBettingEligibility(bettingAmount, rules) ==
    IF JsGreater(bettingAmount, rules.maxBet)
    THEN [eligible |-> FALSE, reason |-> gapExceedsReason(rules)]
    ELSE IF Truthy(rules.restricted)
    THEN [eligible |-> FALSE, reason |-> ReasonRestricted]
    ELSE [eligible |-> TRUE, reason |-> ReasonApproved]

\* ------------------------------------------------- inputs of the requests
Servers == {"simple", "gap"}

\* <<birthYear, birthMonth, birthDay>> of a request body; 0 is a falsy field.
Adult       == <<1990, 5, 15>>
Minor       == <<2010, 1, 1>>
Turning18   == <<2006, 5, 15>>
NoMonth     == <<1990, 0, 15>>
OutOfRange  == <<1990, 13, 40>>
Secrets     == {"s1"}

\* identityCommitment of a generate-proof body: the commitment of the body's
\* own attributes, another string, or "" (absent).
ComputedCommitment(srv, b, secret) ==
    IF srv = "simple"
    THEN generateIdentityCommitment(b[1], b[2], b[3], secret)
    ELSE gapGenerateIdentityCommitment(b[1], b[2], b[3], secret)

Amounts ==
    {Num(-5), Num(0), Num(500), Num(15000), Infinity, Undefined, Str("abc")}

Jurisdictions ==
    {Str("US"), Str("UK"), Str("XX"), Str("constructor"), Undefined}

UnknownProofId == "0000000000000000"

\* ------------------------------------------------------------------ state
VARIABLES
    server,      \* which server this process runs: "simple" or "gap"
    epochDay,    \* day number of the local date at clock = 0
    clock,       \* Date.now(), in ms since local midnight of epochDay
    proofCache,  \* this.proofCache: proofId -> cached entry
    issued,      \* generate-proof requests that wrote the cache so far
    req,         \* the request handled in the last step, if it was one
    resp,        \* the response sent to it: [status, body]
    log,         \* the console lines the last step wrote, in order
    component,   \* the state of the SportsBettingVerification component
    compactVerification,  \* a CompactAgeVerification object and its runtimes
    verified     \* whether the last step called verifyZKProof

vars == <<server, epochDay, clock, proofCache, issued, req, resp, log, component,
          compactVerification, verified>>

\* The commitment the running server's generate-commitment returns for the
\* attributes of the body, alone or with the other values a body can carry.
MatchingCommitment(b, secret) == {ComputedCommitment(server, b, secret)}
AnyCommitment(b, secret) == MatchingCommitment(b, secret) \cup {"bogus", ""}

\* new Map()
EmptyMap == [k \in {} |-> 0]
MapSet(m, k, val) == [x \in DOMAIN m \cup {k} |-> IF x = k THEN val ELSE m[x]]

\* <<getFullYear(), getMonth() + 1, getDate()>> of new Date() at time t.
Today(t) == CivilFromDays(epochDay + t \div MsPerDay)

\* The validity window of a proof: 24 * 60 * 60 * 1000 ms.
ValidityMs == 24 * 60 * 60 * 1000

NoRequest  == [op |-> "none"]
NoResponse == [status |-> 0, body |-> EmptyMap]

\* compact-integration.js: a CompactAgeVerification after its constructor.
\* provider and compact are null (FALSE, 0); every new Compact(...) is
\* numbered, `ready` holds the numbers of the runtime objects whose
\* initialize() has completed and which are not disconnected, `initializing`
\* and `disconnecting` those whose initialize() or disconnect() promise is
\* pending; lastCall is the method step of the last step, if it was one.
CompactInit ==
    [provider |-> FALSE, compact |-> 0, initialized |-> FALSE,
     created |-> 0, ready |-> {}, initializing |-> {}, disconnecting |-> {},
     lastCall |-> [method |-> "none"]]

\* SportsBettingVerification.js: the useState values after the first render
\* and its effect, which draws the identity secret.  A birth date field is a
\* number, 0 for the empty input; fetch is the request in flight, if any.
NoFetch == [state |-> "none"]
FirstIdentitySecret == "424242"
ComponentInit ==
    [verificationStep |-> "input", birthDate |-> <<0, 0, 0>>,
     identitySecret |-> FirstIdentitySecret, identityCommitment |-> "",
     proofId |-> "", isEligible |-> FALSE, loading |-> FALSE, error |-> "",
     fetch |-> NoFetch]

InitOn(epochDates) ==
    /\ server \in Servers
    /\ epochDay \in {DaysFromCivil(e[1], e[2], e[3]) : e \in epochDates}
    /\ clock = 0
    /\ proofCache = EmptyMap
    /\ issued = 0
    /\ req = NoRequest
    /\ resp = NoResponse
    /\ log = <<>>
    /\ component = ComponentInit
    /\ compactVerification = CompactInit
    /\ verified = FALSE

\* ------------------------------------------------------------- the clock
\* The system clock moves forward between (and inside) requests; a step of
\* the clock alone handles no request.
TickMs ==
    /\ clock % MsPerDay < MaxJitter
    /\ clock' = clock + 1
    /\ req' = NoRequest /\ resp' = NoResponse
    /\ log' = <<>> /\ verified' = FALSE
    /\ UNCHANGED <<server, epochDay, proofCache, issued, component, compactVerification>>

TickDay ==
    /\ clock \div MsPerDay < MaxDays
    /\ clock' = clock + MsPerDay
    /\ req' = NoRequest /\ resp' = NoResponse
    /\ log' = <<>> /\ verified' = FALSE
    /\ UNCHANGED <<server, epochDay, proofCache, issued, component, compactVerification>>

\* ---------------------------------------------------------- console lines
\* A console line: its text, and `plain`, the values of the request body
\* that the line prints as they were received.
LogLine(text, plain) == [text |-> text, plain |-> plain]

\* `${x}` in a template literal.
TemplateString(x) ==
    CASE x.t = "number"    -> ToString(x.v)
      [] x.t = "string"    -> x.s
      [] x.t = "infinity"  -> "Infinity"
      [] x.t = "undefined" -> "undefined"
      [] x.t = "null"      -> "null"
      [] x.t = "boolean"   -> IF x.v = 1 THEN "true" ELSE "false"
      [] OTHER             -> "NaN"
BoolString(b) == IF b THEN "true" ELSE "false"

\* console.log(`${new Date().toISOString()} - ${method} ${path}`)
RequestLine(path) == LogLine(ToString(clock) \o " - POST " \o path, {})

\* --------------------------------------------- simple-gap-server.js handlers
MissingProofFields(b, secret, commitment) ==
    b[1] = 0 \/ b[2] = 0 \/ b[3] = 0 \/ secret = "" \/ commitment = ""

simpleAgeLabel(isEligible) == IF isEligible THEN "18+" ELSE "under_18"
MessageProof(isEligible) ==
    IF isEligible
    THEN "Age verification successful - eligible for sports betting"
    ELSE "Age verification failed - not eligible for sports betting"

\* handleGenerateProof with the cache written before the fields are tested:
\* a body that is answered 400 has left its entry in the cache.
simpleHandleGenerateProofStoreFirst(b, secret, commitment, drift, limit) ==
    LET now        == Today(clock)
        age        == calculateAge(b[1], b[2], b[3], now[1], now[2], now[3])
        isEligible == age >= 18
        proof      == simpleGenerateZKProof(
                          [identityCommitment |-> commitment,
                           isEligible |-> isEligible], clock)
        proofId    == generateProofId(proof)
    IN  /\ server = "simple"
        /\ req' = [op |-> "generate-proof", birth |-> b, identitySecret |-> secret,
                   identityCommitment |-> commitment, at |-> clock]
        /\ issued < limit
        /\ drift = 0 \/ clock % MsPerDay < MaxJitter
        /\ proofCache' = MapSet(proofCache, proofId,
               [proof |-> proof, isEligible |-> isEligible,
                age |-> simpleAgeLabel(isEligible),
                timestamp |-> clock,
                expiresAt |-> clock + drift + ValidityMs])
        /\ issued' = issued + 1
        /\ clock' = clock + drift
        /\ IF MissingProofFields(b, secret, commitment)
           THEN /\ resp' = [status |-> 400,
                            body |-> [error |-> "Missing required fields for proof generation"]]
                /\ log' = <<RequestLine("/api/generate-proof")>>
           ELSE /\ resp' = [status |-> 200,
                            body |-> [success |-> TRUE, proofId |-> proofId,
                                      isEligible |-> isEligible,
                                      age |-> simpleAgeLabel(isEligible),
                                      proofHash |-> proof.proofHash,
                                      message |-> MessageProof(isEligible)]]
                /\ log' = <<RequestLine("/api/generate-proof"),
                            LogLine("Age verification proof generated: " \o proofId
                                    \o " (Eligible: " \o BoolString(isEligible) \o ")", {})>>
        /\ verified' = FALSE
        /\ UNCHANGED <<server, epochDay>>

\* handleGenerateProof.  drift is the time that passes between the read of
\* the clock for `timestamp` and the Date.now() read for `expiresAt`.
\* handleGenerateProof that caches the flag of the jurisdiction age 21
\* beside a proof made for the threshold 18.
simpleHandleGenerateProofFlag21(b, secret, commitment, drift, limit) ==
    /\ server = "simple"
    /\ req' = [op |-> "generate-proof", birth |-> b, identitySecret |-> secret,
               identityCommitment |-> commitment, at |-> clock]
    /\ IF MissingProofFields(b, secret, commitment)
       THEN /\ resp' = [status |-> 400,
                        body |-> [error |-> "Missing required fields for proof generation"]]
            /\ log' = <<RequestLine("/api/generate-proof")>>
            /\ UNCHANGED <<proofCache, issued, clock>>
       ELSE LET now        == Today(clock)
                age        == calculateAge(b[1], b[2], b[3], now[1], now[2], now[3])
                isEligible == age >= 18
                proof      == simpleGenerateZKProof(
                                  [identityCommitment |-> commitment,
                                   isEligible |-> isEligible], clock)
                proofId    == generateProofId(proof)
            IN  /\ issued < limit
                /\ drift = 0 \/ clock % MsPerDay < MaxJitter
                /\ proofCache' = MapSet(proofCache, proofId,
                       [proof |-> proof, isEligible |-> age >= 21,
                        age |-> simpleAgeLabel(isEligible),
                        timestamp |-> clock,
                        expiresAt |-> clock + drift + ValidityMs])
                /\ issued' = issued + 1
                /\ clock' = clock + drift
                /\ resp' = [status |-> 200,
                            body |-> [success |-> TRUE, proofId |-> proofId,
                                      isEligible |-> isEligible,
                                      age |-> simpleAgeLabel(isEligible),
                                      proofHash |-> proof.proofHash,
                                      message |-> MessageProof(isEligible)]]
                /\ log' = <<RequestLine("/api/generate-proof"),
                            LogLine("Age verification proof generated: " \o proofId
                                    \o " (Eligible: " \o BoolString(isEligible) \o ")", {})>>
    /\ verified' = FALSE
    /\ UNCHANGED <<server, epochDay>>

simpleHandleGenerateProof(b, secret, commitment, drift, limit) ==
    /\ server = "simple"
    /\ req' = [op |-> "generate-proof", birth |-> b, identitySecret |-> secret,
               identityCommitment |-> commitment, at |-> clock]
    /\ IF MissingProofFields(b, secret, commitment)
       THEN /\ resp' = [status |-> 400,
                        body |-> [error |-> "Missing required fields for proof generation"]]
            /\ log' = <<RequestLine("/api/generate-proof")>>
            /\ UNCHANGED <<proofCache, issued, clock>>
       ELSE LET now        == Today(clock)
                age        == calculateAge(b[1], b[2], b[3], now[1], now[2], now[3])
                isEligible == age >= 18
                proof      == simpleGenerateZKProof(
                                  [identityCommitment |-> commitment,
                                   isEligible |-> isEligible], clock)
                proofId    == generateProofId(proof)
            IN  /\ issued < limit
                /\ drift = 0 \/ clock % MsPerDay < MaxJitter
                /\ proofCache' = MapSet(proofCache, proofId,
                       [proof |-> proof, isEligible |-> isEligible,
                        age |-> simpleAgeLabel(isEligible),
                        timestamp |-> clock,
                        expiresAt |-> clock + drift + ValidityMs])
                /\ issued' = issued + 1
                /\ clock' = clock + drift
                /\ resp' = [status |-> 200,
                            body |-> [success |-> TRUE, proofId |-> proofId,
                                      isEligible |-> isEligible,
                                      age |-> simpleAgeLabel(isEligible),
                                      proofHash |-> proof.proofHash,
                                      message |-> MessageProof(isEligible)]]
                /\ log' = <<RequestLine("/api/generate-proof"),
                            LogLine("Age verification proof generated: " \o proofId
                                    \o " (Eligible: " \o BoolString(isEligible) \o ")", {})>>
    /\ verified' = FALSE
    /\ UNCHANGED <<server, epochDay>>

\* handleVerifyProof, as a function of the cache and the clock.
simpleVerifyProofResponse(cache, now, proofId) ==
    IF proofId = "" THEN [status |-> 400, body |-> [error |-> "Missing proofId"]]
    ELSE IF proofId \notin DOMAIN cache
    THEN [status |-> 404, body |-> [error |-> "Proof not found"]]
    ELSE LET cachedProof == cache[proofId]
             isExpired   == now > cachedProof.expiresAt
         IN  [status |-> 200,
              body |-> [success |-> TRUE, isValid |-> ~isExpired,
                        isEligible |-> cachedProof.isEligible,
                        age |-> cachedProof.age,
                        timestamp |-> cachedProof.timestamp,
                        expiresAt |-> cachedProof.expiresAt,
                        message |-> IF ~isExpired /\ cachedProof.isEligible
                                    THEN "Valid proof - user is eligible for sports betting"
                                    ELSE IF isExpired THEN "Proof has expired"
                                    ELSE "Invalid proof or user not eligible"]]

\* JSON.stringify drops a property whose value is undefined.
WithMaxBet(body, rules) ==
    IF rules.maxBet.t = "undefined" THEN body
    ELSE [k \in DOMAIN body \cup {"maxBet"} |->
             IF k = "maxBet" THEN rules.maxBet.v ELSE body[k]]

\* jurisdiction || 'default'
JurisdictionOrDefault(jurisdiction) ==
    IF Truthy(jurisdiction) THEN jurisdiction ELSE Str("default")

\* handleBettingEligibility without the `!cachedProof.isEligible` branch: an
\* under-age credential goes on to the amount and jurisdiction checks.
simpleBettingEligibilityNoAgeBranch(cache, now, proofId, bettingAmount, jurisdiction) ==
    IF proofId = "" THEN [status |-> 400, body |-> [error |-> "Missing proofId"]]
    ELSE IF proofId \notin DOMAIN cache
    THEN [status |-> 404, body |-> [error |-> "Age verification proof not found"]]
    ELSE LET cachedProof == cache[proofId]
             isExpired   == now > cachedProof.expiresAt
         IN  IF isExpired
             THEN [status |-> 400,
                   body |-> [eligible |-> FALSE, reason |-> ReasonExpired, canBet |-> FALSE]]
             ELSE LET jurisdictionRules == getJurisdictionRules(jurisdiction)
                      eligibilityCheck  ==
                          simpleCheckBettingEligibility(bettingAmount, jurisdictionRules)
                  IN  [status |-> 200,
                       body |-> WithMaxBet(
                           [eligible |-> eligibilityCheck.eligible,
                            canBet |-> cachedProof.isEligible /\ eligibilityCheck.eligible,
                            reason |-> eligibilityCheck.reason,
                            jurisdiction |-> JurisdictionOrDefault(jurisdiction),
                            ageVerified |-> TRUE, proofValid |-> TRUE],
                           jurisdictionRules)]

\* handleBettingEligibility, as a function of the cache and the clock.
simpleBettingEligibilityResponse(cache, now, proofId, bettingAmount, jurisdiction) ==
    IF proofId = "" THEN [status |-> 400, body |-> [error |-> "Missing proofId"]]
    ELSE IF proofId \notin DOMAIN cache
    THEN [status |-> 404, body |-> [error |-> "Age verification proof not found"]]
    ELSE LET cachedProof == cache[proofId]
             isExpired   == now > cachedProof.expiresAt
         IN  IF isExpired
             THEN [status |-> 400,
                   body |-> [eligible |-> FALSE, reason |-> ReasonExpired, canBet |-> FALSE]]
             ELSE IF ~cachedProof.isEligible
             THEN [status |-> 200,
                   body |-> [eligible |-> FALSE, reason |-> ReasonUnderAge, canBet |-> FALSE]]
             ELSE LET jurisdictionRules == getJurisdictionRules(jurisdiction)
                      eligibilityCheck  ==
                          simpleCheckBettingEligibility(bettingAmount, jurisdictionRules)
                  IN  [status |-> 200,
                       body |-> WithMaxBet(
                           [eligible |-> eligibilityCheck.eligible,
                            canBet |-> cachedProof.isEligible /\ eligibilityCheck.eligible,
                            reason |-> eligibilityCheck.reason,
                            jurisdiction |-> JurisdictionOrDefault(jurisdiction),
                            ageVerified |-> TRUE, proofValid |-> TRUE],
                           jurisdictionRules)]

\* The console lines of handleRequest and handleVerifyProof.
simpleVerifyProofLog(cache, now, proofId) ==
    <<RequestLine("/api/verify-proof")>>
    \o (IF proofId = "" \/ proofId \notin DOMAIN cache THEN <<>>
        ELSE LET cachedProof == cache[proofId]
                 isExpired   == now > cachedProof.expiresAt
             IN  <<LogLine("Proof verification: " \o proofId
                           \o " (Valid: " \o BoolString(~isExpired)
                           \o ", Eligible: " \o BoolString(cachedProof.isEligible) \o ")",
                           {proofId})>>)

\* The console lines of handleRequest and handleBettingEligibility.
simpleBettingEligibilityLog(cache, now, proofId, bettingAmount, jurisdiction) ==
    <<RequestLine("/api/betting-eligibility")>>
    \o (IF proofId = "" \/ proofId \notin DOMAIN cache THEN <<>>
        ELSE IF now > cache[proofId].expiresAt \/ ~cache[proofId].isEligible THEN <<>>
        ELSE LET eligibilityCheck == simpleCheckBettingEligibility(
                                         bettingAmount, getJurisdictionRules(jurisdiction))
             IN  <<LogLine("Betting eligibility check: " \o proofId
                           \o " - Amount: $" \o TemplateString(bettingAmount)
                           \o " - Jurisdiction: " \o TemplateString(jurisdiction)
                           \o " - Eligible: " \o BoolString(eligibilityCheck.eligible),
                           {proofId, TemplateString(bettingAmount),
                            TemplateString(jurisdiction)})>>)

\* handleVerifyProof / handleBettingEligibility as steps of the server.
simpleHandleVerifyProof(proofId) ==
    /\ server = "simple"
    /\ req' = [op |-> "verify-proof", proofId |-> proofId, at |-> clock]
    /\ resp' = simpleVerifyProofResponse(proofCache, clock, proofId)
    /\ log' = simpleVerifyProofLog(proofCache, clock, proofId)
    /\ verified' = FALSE
    /\ UNCHANGED <<server, epochDay, clock, proofCache, issued>>

\* handleBettingEligibility that stores its verdict: a credential that was
\* answered canBet is marked used and is not eligible a second time.
simpleHandleBettingEligibilitySingleUse(proofId, bettingAmount, jurisdiction) ==
    LET answer == simpleBettingEligibilityResponse(proofCache, clock, proofId,
                                                   bettingAmount, jurisdiction)
    IN  /\ server = "simple"
        /\ req' = [op |-> "betting-eligibility", proofId |-> proofId,
                   bettingAmount |-> bettingAmount, jurisdiction |-> jurisdiction,
                   at |-> clock]
        /\ resp' = answer
        /\ log' = simpleBettingEligibilityLog(proofCache, clock, proofId,
                                              bettingAmount, jurisdiction)
        /\ verified' = FALSE
        /\ proofCache' = IF answer.status = 200 /\ answer.body.canBet
                         THEN [proofCache EXCEPT ![proofId].isEligible = FALSE]
                         ELSE proofCache
        /\ UNCHANGED <<server, epochDay, clock, issued>>

simpleHandleBettingEligibility(proofId, bettingAmount, jurisdiction) ==
    /\ server = "simple"
    /\ req' = [op |-> "betting-eligibility", proofId |-> proofId,
               bettingAmount |-> bettingAmount, jurisdiction |-> jurisdiction,
               at |-> clock]
    /\ resp' = simpleBettingEligibilityResponse(proofCache, clock, proofId,
                                                bettingAmount, jurisdiction)
    /\ log' = simpleBettingEligibilityLog(proofCache, clock, proofId,
                                          bettingAmount, jurisdiction)
    /\ verified' = FALSE
    /\ UNCHANGED <<server, epochDay, clock, proofCache, issued>>

\* handleGenerateCommitment.
MissingCommitmentFields(b, secret) ==
    b[1] = 0 \/ b[2] = 0 \/ b[3] = 0 \/ secret = ""

MissingCommitmentFieldsError ==
    "Missing required fields: birthYear, birthMonth, birthDay, identitySecret"

\* handleGenerateCommitment with a salted hash input: the time of the
\* request goes into the commitment.
simpleHandleGenerateCommitmentSalted(b, secret) ==
    /\ server = "simple"
    /\ req' = [op |-> "generate-commitment", birth |-> b,
               identitySecret |-> secret, at |-> clock]
    /\ IF MissingCommitmentFields(b, secret)
       THEN /\ resp' = [status |-> 400, body |-> [error |-> MissingCommitmentFieldsError]]
            /\ log' = <<RequestLine("/api/generate-commitment")>>
       ELSE LET commitment == generateIdentityCommitment(
                                  b[1], b[2], b[3], secret \o "-" \o ToString(clock))
            IN  /\ resp' = [status |-> 200,
                            body |-> [success |-> TRUE, commitment |-> commitment,
                                      message |-> "Identity commitment generated successfully"]]
                /\ log' = <<RequestLine("/api/generate-commitment"),
                            LogLine("Identity commitment generated: " \o commitment, {})>>
    /\ verified' = FALSE
    /\ UNCHANGED <<server, epochDay, clock, proofCache, issued>>

simpleHandleGenerateCommitment(b, secret) ==
    /\ server = "simple"
    /\ req' = [op |-> "generate-commitment", birth |-> b,
               identitySecret |-> secret, at |-> clock]
    /\ IF MissingCommitmentFields(b, secret)
       THEN /\ resp' = [status |-> 400, body |-> [error |-> MissingCommitmentFieldsError]]
            /\ log' = <<RequestLine("/api/generate-commitment")>>
       ELSE LET commitment == generateIdentityCommitment(b[1], b[2], b[3], secret)
            IN  /\ resp' = [status |-> 200,
                            body |-> [success |-> TRUE, commitment |-> commitment,
                                      message |-> "Identity commitment generated successfully"]]
                /\ log' = <<RequestLine("/api/generate-commitment"),
                            LogLine("Identity commitment generated: " \o commitment, {})>>
    /\ verified' = FALSE
    /\ UNCHANGED <<server, epochDay, clock, proofCache, issued>>

\* Request bodies of generate-commitment whose fields are any JSON values:
\* the handlers test only that a field is truthy, not that it is a number.
AttributeBodies ==
    [birthYear : {Num(1990), Num(1991)},
     birthMonth : {Num(5), Str("5-15")},
     birthDay : {Num(15), Num(7), Str("15-7")},
     identitySecret : {Str("s"), Str("7-s"), Str("15-7-s"), Undefined}]

\* `${birthYear}-${birthMonth}-${birthDay}-${identitySecret}`
commitmentInput(body) ==
    TemplateString(body.birthYear) \o "-" \o TemplateString(body.birthMonth)
        \o "-" \o TemplateString(body.birthDay)
        \o "-" \o TemplateString(body.identitySecret)

\* generateIdentityCommitment of the running server on the fields of a body.
commitmentOfBody(body) ==
    IF server = "simple" THEN sha256hex16(commitmentInput(body))
    ELSE "dec(" \o sha256hex16(commitmentInput(body)) \o ")"

\* The generate-commitment handler of the running server on such a body.
handleGenerateCommitmentJSON(body) ==
    /\ req' = [op |-> "generate-commitment-json", body |-> body, at |-> clock]
    /\ IF ~Truthy(body.birthYear) \/ ~Truthy(body.birthMonth)
          \/ ~Truthy(body.birthDay) \/ ~Truthy(body.identitySecret)
       THEN /\ resp' = [status |-> 400, body |-> [error |-> MissingCommitmentFieldsError]]
            /\ log' = <<RequestLine("/api/generate-commitment")>>
       ELSE /\ resp' = [status |-> 200,
                        body |-> [success |-> TRUE, commitment |-> commitmentOfBody(body),
                                  message |-> "Identity commitment generated successfully"]]
            /\ log' = <<RequestLine("/api/generate-commitment")>>
                      \o (IF server = "simple"
                          THEN <<LogLine("Identity commitment generated: "
                                         \o commitmentOfBody(body), {})>>
                          ELSE <<>>)
    /\ verified' = FALSE
    /\ UNCHANGED <<server, epochDay, clock, proofCache, issued>>

\* The message of the SyntaxError that JSON.parse throws on a body whose
\* identitySecret is written in single quotes.  The text is the runtime's:
\* it names the offending character and its position, or (quoting) it also
\* quotes the ten characters of the body on each side of it.
JSONparseErrorMessage(secret, quoting) ==
    IF quoting
    THEN "SyntaxError: Unexpected token ''', ...\"tySecret\":'" \o secret
             \o "'}\" is not valid JSON"
    ELSE "SyntaxError: Unexpected token ' in JSON at position"

\* The catch blocks of handleGenerateCommitment and handleGenerateProof, for
\* a body that JSON.parse rejects: console.error(text, error) and a 500.
simpleHandleUnparsableBody(route, b, secret, quoting) ==
    /\ server = "simple"
    /\ req' = [op |-> "unparsable", route |-> route, birth |-> b,
               identitySecret |-> secret, at |-> clock]
    /\ resp' = [status |-> 500,
                body |-> [error |-> IF route = "generate-commitment"
                                    THEN "Failed to generate commitment"
                                    ELSE "Failed to generate age verification proof"]]
    /\ log' = <<RequestLine("/api/" \o route),
                LogLine((IF route = "generate-commitment"
                         THEN "Error generating commitment: "
                         ELSE "Error generating proof: ")
                        \o JSONparseErrorMessage(secret, quoting),
                        IF quoting THEN {secret} ELSE {})>>
    /\ verified' = FALSE
    /\ UNCHANGED <<server, epochDay, clock, proofCache, issued>>

\* ------------------------------------------------------ gap-server.js routes
\* POST /api/generate-commitment.
gapHandleGenerateCommitment(b, secret) ==
    /\ server = "gap"
    /\ req' = [op |-> "generate-commitment", birth |-> b,
               identitySecret |-> secret, at |-> clock]
    /\ IF MissingCommitmentFields(b, secret)
       THEN resp' = [status |-> 400, body |-> [error |-> MissingCommitmentFieldsError]]
       ELSE LET commitment == gapGenerateIdentityCommitment(b[1], b[2], b[3], secret)
            IN  resp' = [status |-> 200,
                         body |-> [success |-> TRUE, commitment |-> commitment,
                                   message |-> "Identity commitment generated successfully"]]
    /\ log' = <<RequestLine("/api/generate-commitment")>>
    /\ verified' = FALSE
    /\ UNCHANGED <<server, epochDay, clock, proofCache, issued>>

\* POST /api/generate-proof with an id that is not computed from the proof
\* alone: the time of the request is appended to it.
gapHandleGenerateProofTimedId(b, secret, commitment, limit) ==
    /\ server = "gap"
    /\ req' = [op |-> "generate-proof", birth |-> b, identitySecret |-> secret,
               identityCommitment |-> commitment, at |-> clock]
    /\ IF MissingProofFields(b, secret, commitment)
       THEN /\ resp' = [status |-> 400,
                        body |-> [error |-> "Missing required fields for proof generation"]]
            /\ log' = <<RequestLine("/api/generate-proof")>>
            /\ UNCHANGED <<proofCache, issued>>
       ELSE LET now     == Today(clock)
                input   == [birth_year |-> b[1], birth_month |-> b[2],
                            birth_day |-> b[3], identity_secret |-> secret,
                            current_year |-> now[1], current_month |-> now[2],
                            current_day |-> now[3],
                            identity_commitment |-> commitment, min_age |-> 18]
                proof   == gapGenerateZKProof(input)
                proofId == generateProofId(proof) \o "@" \o ToString(clock)
            IN  /\ issued < limit
                /\ proofCache' = MapSet(proofCache, proofId,
                       [proof |-> proof, publicSignals |-> proof.publicSignals,
                        timestamp |-> clock,
                        isEligible |-> proof.publicSignals[1] = "1"])
                /\ issued' = issued + 1
                /\ resp' = [status |-> 200,
                            body |-> [success |-> TRUE, proofId |-> proofId,
                                      isEligible |-> proof.publicSignals[1] = "1",
                                      proofHash |-> proof.publicSignals[2],
                                      message |-> MessageProof(proof.publicSignals[1] = "1")]]
                /\ log' = <<RequestLine("/api/generate-proof"),
                            LogLine("Generating ZK proof for age verification...", {})>>
    /\ verified' = FALSE
    /\ UNCHANGED <<server, epochDay, clock>>

\* POST /api/generate-proof.
gapHandleGenerateProof(b, secret, commitment, limit) ==
    /\ server = "gap"
    /\ req' = [op |-> "generate-proof", birth |-> b, identitySecret |-> secret,
               identityCommitment |-> commitment, at |-> clock]
    /\ IF MissingProofFields(b, secret, commitment)
       THEN /\ resp' = [status |-> 400,
                        body |-> [error |-> "Missing required fields for proof generation"]]
            /\ log' = <<RequestLine("/api/generate-proof")>>
            /\ UNCHANGED <<proofCache, issued>>
       ELSE LET now     == Today(clock)
                input   == [birth_year |-> b[1], birth_month |-> b[2],
                            birth_day |-> b[3], identity_secret |-> secret,
                            current_year |-> now[1], current_month |-> now[2],
                            current_day |-> now[3],
                            identity_commitment |-> commitment, min_age |-> 18]
                proof   == gapGenerateZKProof(input)
                proofId == generateProofId(proof)
            IN  /\ issued < limit
                /\ proofCache' = MapSet(proofCache, proofId,
                       [proof |-> proof, publicSignals |-> proof.publicSignals,
                        timestamp |-> clock,
                        isEligible |-> proof.publicSignals[1] = "1"])
                /\ issued' = issued + 1
                /\ resp' = [status |-> 200,
                            body |-> [success |-> TRUE, proofId |-> proofId,
                                      isEligible |-> proof.publicSignals[1] = "1",
                                      proofHash |-> proof.publicSignals[2],
                                      message |-> MessageProof(proof.publicSignals[1] = "1")]]
                /\ log' = <<RequestLine("/api/generate-proof"),
                            LogLine("Generating ZK proof for age verification...", {})>>
    /\ verified' = FALSE
    /\ UNCHANGED <<server, epochDay, clock>>

\* verifyZKProof: "return true; // Simplified for demo".
verifyZKProof(proof, publicSignals) == TRUE

\* POST /api/verify-proof, as a function of the cache.
gapVerifyProofResponse(cache, proofId) ==
    IF proofId = "" THEN [status |-> 400, body |-> [error |-> "Missing proofId"]]
    ELSE IF proofId \notin DOMAIN cache
    THEN [status |-> 404, body |-> [error |-> "Proof not found"]]
    ELSE LET cachedProof == cache[proofId]
             isValid == verifyZKProof(cachedProof.proof, cachedProof.publicSignals)
         IN  [status |-> 200,
              body |-> [success |-> TRUE, isValid |-> isValid,
                        isEligible |-> cachedProof.isEligible,
                        timestamp |-> cachedProof.timestamp,
                        message |-> IF isValid /\ cachedProof.isEligible
                                    THEN "Valid proof - user is eligible for sports betting"
                                    ELSE "Invalid proof or user not eligible"]]

\* POST /api/betting-eligibility, as a function of the cache.
\* POST /api/betting-eligibility with canBet taken from the cached flag
\* alone, whatever the amount and jurisdiction check says.
gapBettingEligibilityCanBetByAge(cache, proofId, bettingAmount, jurisdiction) ==
    IF proofId = "" THEN [status |-> 400, body |-> [error |-> "Missing proofId"]]
    ELSE IF proofId \notin DOMAIN cache
    THEN [status |-> 404, body |-> [error |-> "Age verification proof not found"]]
    ELSE LET cachedProof == cache[proofId]
         IN  IF ~cachedProof.isEligible
             THEN [status |-> 200,
                   body |-> [eligible |-> FALSE, reason |-> ReasonUnderAge, canBet |-> FALSE]]
             ELSE LET jurisdictionRules == getJurisdictionRules(jurisdiction)
                      eligibilityCheck  ==
                          gapCheckBettingEligibility(bettingAmount, jurisdictionRules)
                  IN  [status |-> 200,
                       body |-> WithMaxBet(
                           [eligible |-> eligibilityCheck.eligible,
                            canBet |-> cachedProof.isEligible,
                            reason |-> eligibilityCheck.reason,
                            jurisdiction |-> JurisdictionOrDefault(jurisdiction)],
                           jurisdictionRules)]

gapBettingEligibilityResponse(cache, proofId, bettingAmount, jurisdiction) ==
    IF proofId = "" THEN [status |-> 400, body |-> [error |-> "Missing proofId"]]
    ELSE IF proofId \notin DOMAIN cache
    THEN [status |-> 404, body |-> [error |-> "Age verification proof not found"]]
    ELSE LET cachedProof == cache[proofId]
         IN  IF ~cachedProof.isEligible
             THEN [status |-> 200,
                   body |-> [eligible |-> FALSE, reason |-> ReasonUnderAge, canBet |-> FALSE]]
             ELSE LET jurisdictionRules == getJurisdictionRules(jurisdiction)
                      eligibilityCheck  ==
                          gapCheckBettingEligibility(bettingAmount, jurisdictionRules)
                  IN  [status |-> 200,
                       body |-> WithMaxBet(
                           [eligible |-> eligibilityCheck.eligible,
                            canBet |-> cachedProof.isEligible /\ eligibilityCheck.eligible,
                            reason |-> eligibilityCheck.reason,
                            jurisdiction |-> JurisdictionOrDefault(jurisdiction)],
                           jurisdictionRules)]

gapHandleVerifyProof(proofId) ==
    /\ server = "gap"
    /\ req' = [op |-> "verify-proof", proofId |-> proofId, at |-> clock]
    /\ resp' = gapVerifyProofResponse(proofCache, proofId)
    /\ log' = <<RequestLine("/api/verify-proof")>>
               \o (IF proofId # "" /\ proofId \in DOMAIN proofCache
                   THEN <<LogLine("Verifying ZK proof...", {})>> ELSE <<>>)
    /\ verified' = (proofId # "" /\ proofId \in DOMAIN proofCache)
    /\ UNCHANGED <<server, epochDay, clock, proofCache, issued>>

gapHandleBettingEligibility(proofId, bettingAmount, jurisdiction) ==
    /\ server = "gap"
    /\ req' = [op |-> "betting-eligibility", proofId |-> proofId,
               bettingAmount |-> bettingAmount, jurisdiction |-> jurisdiction,
               at |-> clock]
    /\ resp' = gapBettingEligibilityResponse(proofCache, proofId,
                                             bettingAmount, jurisdiction)
    /\ log' = <<RequestLine("/api/betting-eligibility")>>
    /\ verified' = FALSE
    /\ UNCHANGED <<server, epochDay, clock, proofCache, issued>>

\* ------------------------------------------- compact-integration.js
\* CompactAgeVerification.generateAgeProof.  The call is req; resp is its
\* promise: status 0 while it is pending (body.backend tells how far the
\* awaited this.compact.generateProof is), 200 once it is fulfilled with the
\* result, 500 once it is rejected with the error thrown.
CompactCall == "compact-generateAgeProof"
CompactPending == req.op = CompactCall /\ resp.status = 0

\* BigInt(x) throws for a string that is not a numeral and for undefined;
\* the secrets sent here are integers or such strings.
BigIntThrows(x) == x.t # "number"

compactGenerateProofHash(proof) == sha256hex16(proof)

\* generateAgeProof up to its await.
compactGenerateAgeProof(initialized, b, secret, commitment) ==
    /\ ~CompactPending
    /\ req' = [op |-> CompactCall,
               identityData |-> [birth |-> b, identitySecret |-> secret,
                                 identityCommitment |-> commitment],
               currentDate |-> Today(clock), at |-> clock]
    /\ IF ~initialized
       THEN /\ resp' = [status |-> 500, body |-> [error |-> "Compact not initialized"]]
            /\ log' = <<>>
       ELSE IF BigIntThrows(secret)
       THEN /\ resp' = [status |-> 500,
                        body |-> [error |-> "Cannot convert " \o TemplateString(secret)
                                            \o " to a BigInt"]]
            /\ log' = <<LogLine("Failed to generate age proof: Cannot convert "
                                \o TemplateString(secret) \o " to a BigInt",
                                {TemplateString(secret)})>>
       ELSE /\ resp' = [status |-> 0, body |-> [backend |-> "pending"]]
            /\ log' = <<>>
    /\ verified' = FALSE
    /\ UNCHANGED <<server, epochDay, clock, proofCache, issued, component, compactVerification>>

\* The promise of this.compact.generateProof settles: it is fulfilled with
\* a proof or rejected with an error of the runtime.
compactBackendSettles(outcome) ==
    /\ CompactPending /\ resp.body.backend = "pending"
    /\ resp' = [resp EXCEPT !.body = outcome]
    /\ UNCHANGED <<server, epochDay, clock, proofCache, issued, req, log, verified,
                   component, compactVerification>>

\* The time that passes while generateAgeProof is suspended at its await.
compactWait ==
    /\ CompactPending
    /\ clock % MsPerDay < MaxJitter
    /\ clock' = clock + 1
    /\ UNCHANGED <<server, epochDay, proofCache, issued, req, resp, log, verified,
                   component, compactVerification>>

\* generateAgeProof from its await on: the result, or the catch block.
compactGenerateAgeProofResume ==
    /\ CompactPending /\ resp.body.backend # "pending"
    /\ IF resp.body.backend = "fulfilled"
       THEN LET b      == req.identityData.birth
                now    == req.currentDate
                age    == calculateAge(b[1], b[2], b[3], now[1], now[2], now[3])
                result == [proof |-> resp.body.proof, isEligible |-> age >= 18,
                           proofHash |-> compactGenerateProofHash(resp.body.proof),
                           timestamp |-> clock,
                           age |-> simpleAgeLabel(age >= 18)]
            IN  /\ resp' = [status |-> 200, body |-> result]
                /\ log' = <<LogLine("Age verification proof generated: "
                                    \o result.proofHash, {})>>
       ELSE /\ resp' = [status |-> 500, body |-> [error |-> resp.body.error]]
            /\ log' = <<LogLine("Failed to generate age proof: " \o resp.body.error, {})>>
    /\ UNCHANGED <<server, epochDay, clock, proofCache, issued, req, verified,
                   component, compactVerification>>

ServerState == <<server, epochDay, clock, proofCache, issued, req, resp, log, verified>>

\* The methods of CompactAgeVerification that begin with the initialized
\* test, and one of them called with arguments it accepts: it throws
\* 'Compact not initialized', or goes on to call this.compact.
GuardedMethods ==
    {"createIdentityCommitment", "generateAgeProof", "verifyAgeProof",
     "submitVerificationToNetwork", "queryVerificationStatus",
     "createBettingCertificate"}

compactGuardedMethod(method) ==
    /\ compactVerification' = [compactVerification EXCEPT
           !.lastCall = IF ~compactVerification.initialized
                        THEN [method |-> method, outcome |-> "Compact not initialized",
                              runtime |-> 0]
                        ELSE [method |-> method, outcome |-> "called",
                              runtime |-> compactVerification.compact]]
    /\ UNCHANGED <<ServerState, component>>

\* initialize() up to its await: the provider, a new Compact, and the call
\* of its initialize().
compactInitialize ==
    /\ compactVerification.created < MaxRuntimes
    /\ LET new == compactVerification.created + 1
       IN  compactVerification' = [compactVerification EXCEPT
               !.provider = TRUE, !.compact = new, !.created = new,
               !.initializing = @ \cup {new},
               !.lastCall = [method |-> "initialize", outcome |-> "pending",
                             runtime |-> new]]
    /\ UNCHANGED <<ServerState, component>>

\* initialize() from its await on: this.compact.initialize() of runtime
\* object n has completed (initialized = true, return true) or has thrown
\* (the catch block: return false).
compactInitializeSettles(n, completed) ==
    /\ n \in compactVerification.initializing
    /\ compactVerification' =
           IF completed
           THEN [compactVerification EXCEPT
                    !.initializing = @ \ {n}, !.ready = @ \cup {n},
                    !.initialized = TRUE,
                    !.lastCall = [method |-> "initialize", outcome |-> "true",
                                  runtime |-> n]]
           ELSE [compactVerification EXCEPT
                    !.initializing = @ \ {n},
                    !.lastCall = [method |-> "initialize", outcome |-> "false",
                                  runtime |-> n]]
    /\ UNCHANGED <<ServerState, component>>

\* disconnect() up to its await; without a runtime object it is over at once.
compactDisconnect ==
    /\ compactVerification' =
           IF compactVerification.compact # 0
           THEN [compactVerification EXCEPT
                    !.disconnecting = @ \cup {compactVerification.compact},
                    !.lastCall = [method |-> "disconnect", outcome |-> "pending",
                                  runtime |-> compactVerification.compact]]
           ELSE [compactVerification EXCEPT
                    !.initialized = FALSE,
                    !.lastCall = [method |-> "disconnect", outcome |-> "returned",
                                  runtime |-> 0]]
    /\ UNCHANGED <<ServerState, component>>

\* disconnect() from its await on: this.compact.disconnect() of runtime
\* object n has completed (initialized = false) or has thrown (disconnect()
\* rejects at the await).
compactDisconnectSettles(n, completed) ==
    /\ n \in compactVerification.disconnecting
    /\ compactVerification' =
           IF completed
           THEN [compactVerification EXCEPT
                    !.disconnecting = @ \ {n}, !.ready = @ \ {n},
                    !.initialized = FALSE,
                    !.lastCall = [method |-> "disconnect", outcome |-> "returned",
                                  runtime |-> n]]
           ELSE [compactVerification EXCEPT
                    !.disconnecting = @ \ {n},
                    !.lastCall = [method |-> "disconnect", outcome |-> "threw",
                                  runtime |-> n]]
    /\ UNCHANGED <<ServerState, component>>

getNetworkInfo ==
    [networkId |-> "testnet", initialized |-> compactVerification.initialized,
     provider |-> IF compactVerification.provider THEN "connected" ELSE "disconnected"]

\* ------------------------------------------ SportsBettingVerification.js
\* GAP_SERVER_URL and the two routes the verification flow posts to.
GAP_SERVER_URL == "http://localhost:6300"
CommitmentUrl == GAP_SERVER_URL \o "/api/generate-commitment"
ProofUrl == GAP_SERVER_URL \o "/api/generate-proof"

\* onChange of the birth date inputs, which the input step renders.
setBirthDate(b) ==
    /\ component.verificationStep = "input"
    /\ component' = [component EXCEPT !.birthDate = b]
    /\ UNCHANGED <<ServerState, compactVerification>>

\* generateCommitment up to its fetch; the button is disabled while loading.
\* The body is JSON.stringify of the parseInt of the three inputs and the
\* identity secret.
generateCommitment ==
    /\ component.verificationStep = "input" /\ ~component.loading
    /\ IF \E i \in 1 .. 3 : component.birthDate[i] = 0
       THEN component' = [component EXCEPT
                !.error = "Please enter your complete birth date"]
       ELSE component' = [component EXCEPT
                !.loading = TRUE, !.error = "",
                !.fetch = [state |-> "sent", url |-> CommitmentUrl,
                           body |-> [birthYear |-> component.birthDate[1],
                                     birthMonth |-> component.birthDate[2],
                                     birthDay |-> component.birthDate[3],
                                     identitySecret |-> component.identitySecret]]]
    /\ UNCHANGED <<ServerState, compactVerification>>

\* The server handles the request in flight and its answer travels back.
serverHandlesFetch ==
    /\ component.fetch.state = "sent"
    /\ LET body == component.fetch.body
           b    == <<body.birthYear, body.birthMonth, body.birthDay>>
       IN  IF component.fetch.url = CommitmentUrl
           THEN \/ simpleHandleGenerateCommitment(b, body.identitySecret)
                \/ gapHandleGenerateCommitment(b, body.identitySecret)
           ELSE \/ \E drift \in {0, 1} :
                       simpleHandleGenerateProof(b, body.identitySecret,
                           body.identityCommitment, drift, MaxProofs)
                \/ gapHandleGenerateProof(b, body.identitySecret,
                       body.identityCommitment, MaxProofs)
    /\ component' = [component EXCEPT
           !.fetch = [state |-> "answered", url |-> component.fetch.url,
                      body |-> component.fetch.body, response |-> resp']]
    /\ UNCHANGED compactVerification

\* The request in flight does not reach the server: fetch rejects.
fetchFails ==
    /\ component.fetch.state = "sent"
    /\ component' = [component EXCEPT
           !.fetch = [state |-> "failed", url |-> component.fetch.url,
                      body |-> component.fetch.body]]
    /\ UNCHANGED <<ServerState, compactVerification>>

\* generateAgeProof up to its fetch, called with the birth date and the
\* secret of the render generateCommitment was clicked in.
generateAgeProofFetch(sent, commitment) ==
    [state |-> "sent", url |-> ProofUrl,
     body |-> [birthYear |-> sent.birthYear, birthMonth |-> sent.birthMonth,
               birthDay |-> sent.birthDay, identitySecret |-> sent.identitySecret,
               identityCommitment |-> commitment]]

\* data.error || fallback
ErrorOr(data, fallback) ==
    IF "error" \in DOMAIN data /\ data.error # "" THEN data.error ELSE fallback

\* generateCommitment and generateAgeProof from their await on.
fetchSettled ==
    /\ component.fetch.state \in {"answered", "failed"}
    /\ LET f == component.fetch
       IN  IF f.url = CommitmentUrl
           THEN IF f.state = "failed"
                THEN component' = [component EXCEPT
                         !.error = "Failed to connect to proof server",
                         !.loading = FALSE, !.fetch = NoFetch]
                ELSE IF "success" \in DOMAIN f.response.body
                THEN component' = [component EXCEPT
                         !.identityCommitment = f.response.body.commitment,
                         !.verificationStep = "generating",
                         !.loading = TRUE,
                         !.fetch = generateAgeProofFetch(f.body,
                                       f.response.body.commitment)]
                ELSE component' = [component EXCEPT
                         !.error = ErrorOr(f.response.body,
                                           "Failed to generate commitment"),
                         !.loading = FALSE, !.fetch = NoFetch]
           ELSE IF f.state = "failed"
                THEN component' = [component EXCEPT
                         !.error = "Failed to generate age proof",
                         !.loading = FALSE, !.fetch = NoFetch]
                ELSE IF "success" \in DOMAIN f.response.body
                THEN component' = [component EXCEPT
                         !.proofId = f.response.body.proofId,
                         !.isEligible = f.response.body.isEligible,
                         !.verificationStep = "verified",
                         !.loading = FALSE, !.fetch = NoFetch]
                ELSE component' = [component EXCEPT
                         !.error = ErrorOr(f.response.body,
                                           "Failed to generate age proof"),
                         !.loading = FALSE, !.fetch = NoFetch]
    /\ UNCHANGED <<ServerState, compactVerification>>

\* resetVerification, the "Try Again" button of a failed verification; the
\* new identity secret is another random number.
resetVerification(secret) ==
    /\ component.verificationStep = "verified" /\ ~component.isEligible
    /\ component' = [component EXCEPT
           !.verificationStep = "input", !.birthDate = <<0, 0, 0>>,
           !.identityCommitment = "", !.proofId = "", !.isEligible = FALSE,
           !.error = "", !.identitySecret = secret]
    /\ UNCHANGED <<ServerState, compactVerification>>

\* ------------------------------------------------------ the specifications
\* proofId values a client can send: a cached id, an id never issued, none.
ProofIds == DOMAIN proofCache \cup {UnknownProofId, ""}

\* The requests below come from any client; the component stays as it is.
GenerateProofOn(births, wellFormed, limit) ==
    /\ \E b \in births, secret \in Secrets :
        \E commitment \in (IF wellFormed THEN MatchingCommitment(b, secret)
                                         ELSE AnyCommitment(b, secret)) :
            \/ \E drift \in {0, 1} :
                   simpleHandleGenerateProof(b, secret, commitment, drift, limit)
            \/ gapHandleGenerateProof(b, secret, commitment, limit)
    /\ UNCHANGED <<component, compactVerification>>

VerifyProof ==
    /\ \E proofId \in ProofIds :
        \/ simpleHandleVerifyProof(proofId)
        \/ gapHandleVerifyProof(proofId)
    /\ UNCHANGED <<component, compactVerification>>

GenerateCommitmentOn(births, secrets) ==
    /\ \E b \in births, secret \in secrets :
        \/ simpleHandleGenerateCommitment(b, secret)
        \/ gapHandleGenerateCommitment(b, secret)
    /\ UNCHANGED <<component, compactVerification>>

\* A body with the four attributes that is not JSON text.
UnparsableBody ==
    /\ \E route \in {"generate-commitment", "generate-proof"},
          secret \in Secrets, quoting \in BOOLEAN :
        simpleHandleUnparsableBody(route, Adult, secret, quoting)
    /\ UNCHANGED <<component, compactVerification>>

\* bodies: the <<bettingAmount, jurisdiction>> pairs of the request bodies.
BettingEligibilityOn(bodies) ==
    /\ \E proofId \in ProofIds, body \in bodies :
        \/ simpleHandleBettingEligibility(proofId, body[1], body[2])
        \/ gapHandleBettingEligibility(proofId, body[1], body[2])
    /\ UNCHANGED <<component, compactVerification>>

\* Spec: the life cycle of the cache.  Every kind of generate-proof body,
\* two issuances, one betting request shape.
Init == InitOn({<<2024, 5, 14>>})

GenerateCommitment == GenerateCommitmentOn({Adult, NoMonth, OutOfRange}, Secrets \cup {""})
GenerateProof == GenerateProofOn({Adult, Minor, Turning18, NoMonth}, FALSE, MaxProofs)
BettingEligibility == BettingEligibilityOn({Num(500), Num(15000)} \X {Str("US")})

Next ==
    \/ TickMs
    \/ TickDay
    \/ GenerateCommitment
    \/ GenerateProof
    \/ VerifyProof
    \/ BettingEligibility
    \/ UnparsableBody

Spec == Init /\ [][Next]_vars

\* EligibilitySpec: the eligibility decision.  An adult or a minor holder
\* with a well-formed body; every amount with a known jurisdiction and every
\* jurisdiction with an amount below and an amount above the US maximum.
EligibilityGenerateProof ==
    GenerateProofOn({Adult, Minor}, TRUE, MaxEligibilityProofs)
EligibilityCheck ==
    BettingEligibilityOn(
        (Amounts \X {Str("US")}) \cup ({Num(500), Num(15000)} \X Jurisdictions))

EligibilityNext ==
    \/ TickMs
    \/ TickDay
    \/ EligibilityGenerateProof
    \/ VerifyProof
    \/ EligibilityCheck

EligibilitySpec == Init /\ [][EligibilityNext]_vars

\* AgeSpec: the age predicate.  Birth dates on every side of the reference
\* date, reference dates inside a month, at a year end and at a month end.
AgeGenerateProof ==
    GenerateProofOn(
        {<<2006, 5, 14>>, <<2006, 5, 15>>, <<2006, 5, 16>>, <<2006, 6, 1>>,
         <<2006, 12, 31>>, <<2007, 1, 1>>, <<2005, 3, 1>>, <<2025, 1, 1>>},
        TRUE, MaxEligibilityProofs)

AgeNext ==
    \/ TickMs
    \/ TickDay
    \/ AgeGenerateProof
    \/ VerifyProof

AgeSpec ==
    InitOn({<<2024, 5, 14>>, <<2024, 12, 31>>, <<2023, 2, 28>>}) /\ [][AgeNext]_vars

\* IntakeSpec: the requests that carry the attributes.  Complete, incomplete,
\* out-of-range and unparsable bodies arrive in any order while the clock
\* runs within a day.
IntakeBirths == {Adult, NoMonth, OutOfRange}
IntakeGenerateCommitment == GenerateCommitmentOn(IntakeBirths, {"s1", "s2", ""})
IntakeGenerateProof == GenerateProofOn(IntakeBirths, FALSE, MaxProofs)

IntakeNext ==
    \/ TickMs
    \/ IntakeGenerateCommitment
    \/ IntakeGenerateProof
    \/ UnparsableBody

IntakeSpec == Init /\ [][IntakeNext]_vars

\* EncodingSpec: generate-commitment on bodies of any JSON values.
GenerateCommitmentJSON ==
    /\ \E body \in AttributeBodies : handleGenerateCommitmentJSON(body)
    /\ UNCHANGED <<component, compactVerification>>

EncodingNext ==
    \/ TickMs
    \/ GenerateCommitmentJSON

EncodingSpec == Init /\ [][EncodingNext]_vars

\* BackendSpec: proof generation and its backend.  The generate-proof
\* routes of the servers, and generateAgeProof of compact-integration.js
\* with a backend promise that is fulfilled, is rejected, or stays pending.
BackendGenerateProof ==
    ~CompactPending /\ GenerateProofOn({Adult, Minor}, TRUE, MaxEligibilityProofs)
CompactGenerateAgeProof ==
    \E initialized \in BOOLEAN, b \in {Adult, Minor, Turning18},
       secret \in {Num(42), Str("s1")} :
        compactGenerateAgeProof(initialized, b, secret, "c1")
CompactBackendSettles ==
    \E outcome \in {[backend |-> "fulfilled", proof |-> "compact-proof"],
                    [backend |-> "rejected", error |-> "proof generation timed out"]} :
        compactBackendSettles(outcome)
BackendTick == ~CompactPending /\ (TickMs \/ TickDay)

BackendNext ==
    \/ BackendTick
    \/ BackendGenerateProof
    \/ CompactGenerateAgeProof
    \/ CompactBackendSettles
    \/ compactWait
    \/ compactGenerateAgeProofResume

BackendSpec == Init /\ [][BackendNext]_vars

\* The event loop runs every continuation that is ready and the clock does
\* not stop; nothing makes the backend settle.
BackendFairSpec ==
    BackendSpec /\ WF_vars(compactGenerateAgeProofResume) /\ WF_vars(compactWait)
                /\ WF_vars(BackendTick)

\* ComponentSpec: the verification flow of the component against a server.
\* A user types a birth date (complete or not, of an adult or of a minor)
\* and asks for verification; the network delivers or drops each request.
SetBirthDate == \E b \in {Adult, Minor, NoMonth} : setBirthDate(b)
ResetVerification == \E secret \in {FirstIdentitySecret, "7"} : resetVerification(secret)

ComponentNext ==
    \/ SetBirthDate
    \/ generateCommitment
    \/ serverHandlesFetch
    \/ fetchFails
    \/ fetchSettled
    \/ ResetVerification

ComponentSpec == Init /\ [][ComponentNext]_vars

\* MinAgeSpec: holders of 17 to 19 years.  One turns 18 on the day after the
\* first day of the run, one is 19; each asks for a credential and then for
\* eligibility in a jurisdiction whose table row says minAge 21 or 18.
MinAgeHolders == {<<2005, 3, 1>>, <<2003, 6, 1>>}

MinAgeNext ==
    \/ TickMs
    \/ TickDay
    \/ GenerateProofOn(MinAgeHolders, TRUE, MaxEligibilityProofs)
    \/ BettingEligibilityOn({Num(500), Num(15000)} \X {Str("US"), Str("UK")})

MinAgeSpec == InitOn({<<2023, 2, 28>>}) /\ [][MinAgeNext]_vars

\* HashSpec: issuance on several calendar dates.  Servers started on
\* 2024-01-11 and on 2024-11-01 get bodies of an adult and of a minor with
\* the holder's own commitment or another one.
HashNext ==
    \/ TickMs
    \/ TickDay
    \/ GenerateProofOn({Adult, Minor}, FALSE, MaxEligibilityProofs)

HashSpec == InitOn({<<2024, 1, 11>>, <<2024, 11, 1>>}) /\ [][HashNext]_vars

\* LifecycleSpec: one CompactAgeVerification whose owner calls initialize(),
\* disconnect() and the guarded methods in any order, calls overlapping at
\* their awaits, with a runtime that completes or fails each of them.
LifecycleNext ==
    \/ compactInitialize
    \/ \E n \in 1 .. MaxRuntimes, completed \in BOOLEAN :
           compactInitializeSettles(n, completed)
    \/ compactDisconnect
    \/ \E n \in 1 .. MaxRuntimes, completed \in BOOLEAN :
           compactDisconnectSettles(n, completed)
    \/ \E method \in GuardedMethods : compactGuardedMethod(method)

LifecycleSpec == Init /\ [][LifecycleNext]_vars

\* ReissueSpec: repeated issuance.  One holder sends the same well-formed
\* generate-proof body again and again while the clock runs, and looks the
\* ids up in between.
ReissueGenerateProof == GenerateProofOn({Adult}, TRUE, MaxProofs)
ReissueCheck == BettingEligibilityOn({Num(500), Num(15000)} \X {Str("US")})

ReissueNext ==
    \/ TickMs
    \/ TickDay
    \/ ReissueGenerateProof
    \/ VerifyProof
    \/ ReissueCheck

ReissueSpec == Init /\ [][ReissueNext]_vars

\* The same server as long as it runs: the clock goes on and every request
\* that arrives is handled.
ReissueFairSpec ==
    ReissueSpec /\ WF_vars(TickMs) /\ WF_vars(TickDay) /\ WF_vars(VerifyProof)

TypeOK ==
    /\ server \in Servers
    /\ clock \in 0 .. (MaxDays * MsPerDay + MaxJitter + 1)
    /\ issued \in 0 .. MaxProofs
    /\ Cardinality(DOMAIN proofCache) <= issued

\* ------------------------------------------------ the AgeVerification circuit
\* GreaterThan(8), GreaterEqThan(8) and IsEqual() on operands below 2^8.
GreaterThan8(a, b)   == IF a > b THEN 1 ELSE 0
GreaterEqThan8(a, b) == IF a >= b THEN 1 ELSE 0
IsEqualOut(a, b)     == IF a = b THEN 1 ELSE 0

\* has_had_birthday <== month_check.out + month_eq.out * day_check.out
has_had_birthday(birth_month, birth_day, current_month, current_day) ==
    GreaterThan8(current_month, birth_month)
        + IsEqualOut(current_month, birth_month) * GreaterEqThan8(current_day, birth_day)

\* age_years <== current_year - birth_year - (1 - has_had_birthday)
age_years(b, now) ==
    now[1] - b[1] - (1 - has_had_birthday(b[2], b[3], now[2], now[3]))

\* is_eligible <== age_check.out, age_check = GreaterEqThan(8) on
\* (age_years, min_age); the comparator has an output only for operands
\* in 0 .. 255.
AgeInComparatorRange(b, now) == age_years(b, now) \in 0 .. 255
is_eligible(b, now, min_age) == GreaterEqThan8(age_years(b, now), min_age)

\* The date range constraints: LessEqThan(12) on (birth_year, 2024),
\* GreaterEqThan(8) / LessEqThan(8) on the month and the day.
LessEqThanOut(a, b) == IF a <= b THEN 1 ELSE 0
year_range(birth_year)    == LessEqThanOut(birth_year, 2024)
month_range1(birth_month) == GreaterEqThan8(birth_month, 1)
month_range2(birth_month) == LessEqThanOut(birth_month, 12)
day_range1(birth_day)     == GreaterEqThan8(birth_day, 1)
day_range2(birth_day)     == LessEqThanOut(birth_day, 31)

\* date_valid <== the product of the five outputs; date_valid === 1.
date_valid(b) ==
    year_range(b[1]) * month_range1(b[2]) * month_range2(b[2])
        * day_range1(b[3]) * day_range2(b[3])

\* --------------------------------------------------- vocabulary of the claims
IsBetting == req.op = "betting-eligibility"
IsVerify  == req.op = "verify-proof"
IsIssue   == req.op = "generate-proof"

\* The last request was a lookup of a credential that is in the cache.
OnStored == (IsBetting \/ IsVerify) /\ req.proofId \in DOMAIN proofCache
Cred     == proofCache[req.proofId]

\* The end of a credential's 24-hour window: the expiresAt it carries, or,
\* for an entry without one, its issuance time plus the window.
ExpiresAt(c) ==
    IF "expiresAt" \in DOMAIN c THEN c.expiresAt ELSE c.timestamp + ValidityMs
IsExpiredAt(c, t) == t > ExpiresAt(c)

Reason == resp.body.reason
CanBet == resp.body.canBet

\* The betting-eligibility answer of the running server at time t.
BettingResponse(proofId, bettingAmount, jurisdiction, t) ==
    IF server = "simple"
    THEN simpleBettingEligibilityResponse(proofCache, t, proofId, bettingAmount, jurisdiction)
    ELSE gapBettingEligibilityResponse(proofCache, proofId, bettingAmount, jurisdiction)

\* The verify-proof answer of the running server at time t.
VerifyResponse(proofId, t) ==
    IF server = "simple"
    THEN simpleVerifyProofResponse(proofCache, t, proofId)
    ELSE gapVerifyProofResponse(proofCache, proofId)

\* The amount is a finite number > 0 and not above a numeric maxBet.
AmountWithinPolicy(amount, rules) ==
    /\ IsPositiveFinite(amount)
    /\ rules.maxBet.t = "number"
    /\ amount.v <= rules.maxBet.v

\* The maxBet the policy table gives a jurisdiction value (spec section 6).
TableMaxBet(jurisdiction) ==
    CASE jurisdiction = Str("US") -> 10000
      [] jurisdiction = Str("UK") -> 50000
      [] jurisdiction = Str("EU") -> 25000
      [] OTHER                    -> 1000

\* ------------------------------------------------------------------ C1
\* C1: for every betting-eligibility request on a stored credential,
\* canBet = true iff the credential is unexpired, its predicate result is
\* true, the amount is a positive finite number not above the resolved
\* jurisdiction's maxBet, and the resolved jurisdiction is not restricted.
C1_CanBetIffAllFour ==
    (IsBetting /\ OnStored) =>
        LET rules == getJurisdictionRules(req.jurisdiction)
        IN  /\ "canBet" \in DOMAIN resp.body
            /\ CanBet <=> /\ ~IsExpiredAt(Cred, req.at)
                          /\ Cred.isEligible
                          /\ AmountWithinPolicy(req.bettingAmount, rules)
                          /\ rules.restricted = False

\* ------------------------------------------------------------------ C2
\* C2: a lookup (verify-proof or betting-eligibility) of a credential issued
\* more than 24 hours earlier (the lookup is later than the end of the
\* credential's window) reports it expired and never approves it.
C2_ExpiredAfter24h ==
    (OnStored /\ IsExpiredAt(Cred, req.at)) =>
        IF IsVerify
        THEN resp.body.isValid = FALSE /\ resp.body.message = "Proof has expired"
        ELSE Reason = ReasonExpired /\ CanBet = FALSE

\* ------------------------------------------------------------------ C3
\* The reason the decision order of the claim gives a request.
FirstFailingCheck(c, t, amount, jurisdiction) ==
    LET rules == getJurisdictionRules(jurisdiction)
    IN  IF IsExpiredAt(c, t)               THEN "ProofExpired"
        ELSE IF ~c.isEligible              THEN "PredicateNotMet"
        ELSE IF ~IsPositiveFinite(amount)  THEN "InvalidAmount"
        ELSE IF Truthy(rules.restricted)   THEN "JurisdictionRestricted"
        ELSE IF JsGreater(amount, rules.maxBet) THEN "AmountExceedsLimit"
        ELSE "Approved"

\* The enumerated cause a reason text stands for.
CauseOf(reason) ==
    CASE reason = ReasonExpired       -> "ProofExpired"
      [] reason = ReasonUnderAge      -> "PredicateNotMet"
      [] reason = ReasonInvalidAmount -> "InvalidAmount"
      [] reason = ReasonRestricted    -> "JurisdictionRestricted"
      [] reason = ReasonApproved      -> "Approved"
      [] IsExceedsReason(reason)      -> "AmountExceedsLimit"
      [] OTHER                        -> "Unknown"

\* C3: the reason of a verdict of simple-gap-server.js is that of the first
\* failing check in the order expired, predicate false, amount <= 0 or
\* non-finite, jurisdiction restricted, amount above the maximum, approved.
C3_ReasonIsFirstFailingCheck ==
    (IsBetting /\ OnStored /\ server = "simple") =>
        CauseOf(Reason) = FirstFailingCheck(Cred, req.at, req.bettingAmount, req.jurisdiction)

\* ------------------------------------------------------------------ C4
\* C4: a betting-eligibility request on an expired credential with an amount
\* above the jurisdiction maximum reports the expired-proof reason, never
\* the amount-exceeds-limit reason.
C4_ExpiredBeforeExceeds ==
    (/\ IsBetting /\ OnStored
     /\ IsExpiredAt(Cred, req.at)
     /\ JsGreater(req.bettingAmount, getJurisdictionRules(req.jurisdiction).maxBet)) =>
        Reason = ReasonExpired /\ ~IsExceedsReason(Reason)

\* ------------------------------------------------------------------ C5
\* C5 as stated: a credential whose predicate result is false is stored at
\* issuance and every betting-eligibility request on it returns the
\* predicate-not-met reason with canBet = false.
C5_UnderAgeAlwaysPredicateNotMet ==
    /\ (IsIssue /\ resp.status = 200 /\ ~resp.body.isEligible) =>
           resp.body.proofId \in DOMAIN proofCache
    /\ (IsBetting /\ OnStored /\ ~Cred.isEligible) =>
           Reason = ReasonUnderAge /\ CanBet = FALSE

\* C5 amended: a credential whose predicate result is false is stored at
\* issuance with that result; every betting-eligibility request on it returns
\* canBet = false and eligible = false, with the predicate-not-met reason as
\* long as the credential is unexpired; the only other reason it can get is
\* the expired-proof reason, and only once it is expired.
C5_UnderAgeNeverEligible ==
    /\ (IsIssue /\ resp.status = 200 /\ ~resp.body.isEligible) =>
           /\ resp.body.proofId \in DOMAIN proofCache
           /\ ~proofCache[resp.body.proofId].isEligible
    /\ (IsBetting /\ OnStored /\ ~Cred.isEligible) =>
           /\ CanBet = FALSE
           /\ resp.body.eligible = FALSE
           /\ Reason \in {ReasonUnderAge, ReasonExpired}
           /\ ~IsExpiredAt(Cred, req.at) => Reason = ReasonUnderAge
           /\ Reason = ReasonExpired => IsExpiredAt(Cred, req.at)
           /\ \A amount \in Amounts, jurisdiction \in Jurisdictions :
                  BettingResponse(req.proofId, amount, jurisdiction, req.at) = resp

\* An under-age credential, still inside its window, asked for a valid
\* amount in a known jurisdiction, is refused as predicate-not-met.
C5_Witness ==
    /\ IsBetting /\ OnStored /\ ~Cred.isEligible
    /\ ~IsExpiredAt(Cred, req.at)
    /\ req.bettingAmount = Num(500) /\ req.jurisdiction = Str("UK")
    /\ Reason = ReasonUnderAge /\ CanBet = FALSE

\* ------------------------------------------------------------------ C6
\* C6: for a credential that is expired or whose predicate result is false,
\* the response to a betting-eligibility request is the one every other
\* amount and jurisdiction would get, and it carries no maxBet and no
\* amount-dependent reason.
C6_PolicyNonInterference ==
    (IsBetting /\ OnStored /\ (IsExpiredAt(Cred, req.at) \/ ~Cred.isEligible)) =>
        /\ \A amount \in Amounts, jurisdiction \in Jurisdictions :
               BettingResponse(req.proofId, amount, jurisdiction, req.at) = resp
        /\ "maxBet" \notin DOMAIN resp.body
        /\ ~IsExceedsReason(Reason) /\ Reason # ReasonInvalidAmount

\* ------------------------------------------------------------------ C7
\* C7: for an unexpired credential with predicate result true, every amount
\* that is not a finite number greater than 0 yields the invalid-amount
\* reason with canBet = false.
C7_InvalidAmountRejected ==
    (/\ IsBetting /\ OnStored
     /\ ~IsExpiredAt(Cred, req.at) /\ Cred.isEligible
     /\ ~IsPositiveFinite(req.bettingAmount)) =>
        Reason = ReasonInvalidAmount /\ CanBet = FALSE

\* ------------------------------------------------------------------ C8
\* C8: the policy lookup is total: US, UK and EU resolve to maxBet 10000,
\* 50000 and 25000, every other jurisdiction value to the default policy
\* with maxBet 1000; every resolved policy has a numeric maxBet and
\* restricted = false.  Stated on the policy a verdict was computed from.
C8_PolicyLookupTotal ==
    (IsBetting /\ OnStored /\ ~IsExpiredAt(Cred, req.at) /\ Cred.isEligible) =>
        LET rules == getJurisdictionRules(req.jurisdiction)
        IN  /\ rules.maxBet = Num(TableMaxBet(req.jurisdiction))
            /\ rules.restricted = False
            /\ "maxBet" \in DOMAIN resp.body
            /\ resp.body.maxBet = TableMaxBet(req.jurisdiction)

\* ------------------------------------------------------------------ C9
\* C9: generate-proof fails with an error and issues no credential id
\* whenever the supplied identityCommitment differs from the commitment
\* computed from the supplied birth date and identitySecret.
C9_MismatchedCommitmentRejected ==
    (/\ IsIssue
     /\ req.identityCommitment #
            ComputedCommitment(server, req.birth, req.identitySecret)) =>
        /\ resp.status >= 400
        /\ "proofId" \notin DOMAIN resp.body

\* ----------------------------------------------------------------- C10
\* The reference (month, day) is on or after the birth (month, day).
OnOrAfterBirthday(b, ref) == ref[2] > b[2] \/ (ref[2] = b[2] /\ ref[3] >= b[3])

\* Age in whole years: the year difference, minus one unless the birthday
\* has been reached in the reference year.
WholeYears(b, ref) ==
    (ref[1] - b[1]) - (IF OnOrAfterBirthday(b, ref) THEN 0 ELSE 1)

IsCommit == req.op = "generate-commitment"

\* C11: generate-commitment rejects every body whose birth month is outside
\* 1..12, whose birth day is outside 1..31, whose birth year is outside
\* 1900..2024 or that lacks one of the four fields, with a 400 answer that
\* carries no commitment.
C11_InvalidAttributesRejected ==
    (IsCommit /\ (\/ req.birth[1] \notin 1900 .. 2024
                  \/ req.birth[2] \notin 1 .. 12
                  \/ req.birth[3] \notin 1 .. 31
                  \/ req.identitySecret = ""))
        => /\ resp.status = 400
           /\ "commitment" \notin DOMAIN resp.body

\* ------------------------------------------------------------------ C12
\* C12: a generate-proof body with all its fields whose birth year is later
\* than the current year, whose month is outside 1..12 or whose day is
\* outside 1..31 gets a proof-generation error (a 5xx answer without an
\* isEligible result), and the circuit's date constraint holds of a birth
\* date only inside 1900..2024, 1..12, 1..31.
C12_OutOfRangeDateFailsProof ==
    (IsIssue /\ ~MissingProofFields(req.birth, req.identitySecret, req.identityCommitment))
        => /\ (\/ req.birth[1] > Today(req.at)[1]
               \/ req.birth[2] \notin 1 .. 12
               \/ req.birth[3] \notin 1 .. 31)
                  => (resp.status >= 500 /\ "isEligible" \notin DOMAIN resp.body)
           /\ date_valid(req.birth) = 1
                  => /\ req.birth[1] \in 1900 .. 2024
                     /\ req.birth[2] \in 1 .. 12
                     /\ req.birth[3] \in 1 .. 31

\* ------------------------------------------------------------------ C13
\* C13: every stored credential carries an issuance time and an expiry time,
\* and its expiry time is its issuance time plus exactly 24 hours.
C13_ExpiryIsIssuancePlus24h ==
    \A id \in DOMAIN proofCache :
        /\ "timestamp" \in DOMAIN proofCache[id]
        /\ "expiresAt" \in DOMAIN proofCache[id]
        /\ proofCache[id].expiresAt = proofCache[id].timestamp + ValidityMs

\* ------------------------------------------------------------------ C14
\* C14: verify-proof and betting-eligibility answer an id that is not in
\* the store with 404 and the id of a stored credential past its 24 hours
\* with 410; the answer for an expired credential is no success body, and
\* 404 and 410 are given for no other case.
C14_NotFoundAndExpiredDistinct ==
    ((IsBetting \/ IsVerify) /\ req.proofId # "") =>
        LET unknown == req.proofId \notin DOMAIN proofCache
            expired == ~unknown /\ IsExpiredAt(Cred, req.at)
        IN  /\ (resp.status = 404) <=> unknown
            /\ (resp.status = 410) <=> expired
            /\ expired => "success" \notin DOMAIN resp.body

\* ------------------------------------------------------------------ C15
\* The predicate result, the issuance time and the expiry time of an entry.
CredentialFacts(c) ==
    <<c.isEligible, c.timestamp,
      IF "expiresAt" \in DOMAIN c THEN c.expiresAt ELSE -1>>

\* C15: a stored credential never changes: in every step, every id of the
\* store stays in the store with the predicate result, issuance time and
\* expiry time it had, also when the step issues a proof with the same id.
C15_CredentialImmutable ==
    [][\A id \in DOMAIN proofCache :
           /\ id \in DOMAIN proofCache'
           /\ CredentialFacts(proofCache'[id]) = CredentialFacts(proofCache[id])]_vars

\* ------------------------------------------------------------------ C16
\* C16: issuance is idempotent and the id is a function of the proof alone:
\* a successful generate-proof answers with the id under which its proof is
\* stored, and every entry that was already stored with an equal proof,
\* whenever it was issued, is stored under that same id.
C16_IssuanceIdempotent ==
    [][(req'.op = "generate-proof" /\ resp'.status = 200) =>
           LET id == resp'.body.proofId
           IN  /\ id \in DOMAIN proofCache'
               /\ \A i \in DOMAIN proofCache :
                      proofCache[i].proof = proofCache'[id].proof => i = id]_vars

\* A second issuance produced the proof of the first one and was stored
\* under the id of the first one.
C16_Witness ==
    /\ IsIssue /\ resp.status = 200
    /\ issued = 2
    /\ DOMAIN proofCache = {resp.body.proofId}

\* ------------------------------------------------------------------ C17
MessageExpired == "Proof has expired"

\* A lookup of the stored id, made now, reports it expired.
LookupReportsExpired(id) ==
    \/ VerifyResponse(id, clock).body.message = MessageExpired
    \/ BettingResponse(id, Num(500), Str("US"), clock).body.reason = ReasonExpired

\* The answer of the last step is the expired answer of a lookup.
AnsweredExpired ==
    /\ OnStored
    /\ \/ IsVerify /\ resp.body.message = MessageExpired /\ ~resp.body.isValid
       \/ IsBetting /\ Reason = ReasonExpired /\ ~CanBet

\* An expired answer is given only for an id whose lookups report expired.
ExpiredAnswerIsOfExpiredId ==
    AnsweredExpired => LookupReportsExpired(req.proofId)

\* C17: expired is terminal for a credential id.  An answer reports an id
\* expired only when every lookup of it reports it expired; from then on,
\* whatever requests and clock steps follow, the id stays in the store, stays
\* expired, and every lookup of it is answered expired, never valid and
\* never with canBet.
C17_ExpiredIsTerminal ==
    [][/\ ExpiredAnswerIsOfExpiredId'
       /\ \A id \in DOMAIN proofCache :
              LookupReportsExpired(id) =>
                  /\ id \in DOMAIN proofCache'
                  /\ LookupReportsExpired(id)'
                  /\ (req'.op \in {"verify-proof", "betting-eligibility"}
                          /\ req'.proofId = id) => AnsweredExpired']_vars

\* A lookup is answered expired after a later proof has been issued.
C17_Witness ==
    /\ AnsweredExpired
    /\ issued = 2
    /\ \E id \in DOMAIN proofCache : proofCache[id].timestamp > Cred.expiresAt

\* ------------------------------------------------------------------ C18
\* The public signals of a credential as they are for commitment c: the
\* predicate result, and the proof hash of c on the day of issuance.
SignalsFor(c, commitment) ==
    LET day == Today(c.timestamp)
    IN  <<c.publicSignals[1],
          generateProofHash([identity_commitment |-> commitment,
                             current_year |-> day[1], current_month |-> day[2],
                             current_day |-> day[3]],
                            c.publicSignals[1])>>

\* C18: proof verification is bound to the commitment: for a stored
\* credential that verify-proof looks up, verifying its proof against the
\* public signals of a commitment other than the one it was generated with
\* returns false.
C18_VerificationBoundToCommitment ==
    (server = "gap" /\ IsVerify /\ OnStored) =>
        \A commitment \in {"bogus", "another"} :
            SignalsFor(Cred, commitment) # Cred.publicSignals
                => ~verifyZKProof(Cred.proof, SignalsFor(Cred, commitment))

\* ------------------------------------------------------------------ C19
\* C19: every verify-proof and betting-eligibility answer about a stored
\* credential is given by a request that has verified the stored proof
\* record; no answer rests on the cached isEligible alone.
C19_AnswerFollowsVerification ==
    OnStored => verified

\* ------------------------------------------------------------------ C20
\* The private attributes of the last request, as they stand in its body.
PrivateValues ==
    IF "birth" \in DOMAIN req
    THEN ({ToString(req.birth[i]) : i \in 1 .. 3} \cup {req.identitySecret}) \ {"0", ""}
    ELSE {}

\* The proofs that the commitment of the body, a predicate result and the
\* time of the request determine.
PublicProofs ==
    IF server = "simple"
    THEN {simpleGenerateZKProof([identityCommitment |-> req.identityCommitment,
                                 isEligible |-> e], req.at) : e \in BOOLEAN}
    ELSE LET day == Today(req.at)
         IN  {[publicSignals |->
                  <<e, generateProofHash(
                           [identity_commitment |-> req.identityCommitment,
                            current_year |-> day[1], current_month |-> day[2],
                            current_day |-> day[3]], e)>>] : e \in {"0", "1"}}

\* C20: no private attribute (birth year, month, day, identity secret) is in
\* a store entry, a console line or a response, after any request, failed
\* ones included: no console line prints a private attribute of the body; an
\* error answer is one fixed text; the answer and the store entry of a
\* successful generate-proof have only the fields of a credential, made of
\* the commitment, the predicate result and the time.
C20_PrivateAttributesNeverExposed ==
    /\ \A i \in 1 .. Len(log) : log[i].plain \cap PrivateValues = {}
    /\ resp.status >= 500 => DOMAIN resp.body = {"error"}
    /\ (IsIssue /\ resp.status = 200) =>
           /\ DOMAIN resp.body \subseteq
                  {"success", "proofId", "isEligible", "age", "proofHash", "message"}
           /\ resp.body.proofId \in DOMAIN proofCache
           /\ proofCache[resp.body.proofId].proof \in PublicProofs
           /\ resp.body.proofId = generateProofId(proofCache[resp.body.proofId].proof)
           /\ resp.body.proofHash = proofCache[resp.body.proofId].proof.publicSignals[2]
    /\ \A id \in DOMAIN proofCache :
           DOMAIN proofCache[id] \subseteq
               {"proof", "publicSignals", "isEligible", "age", "timestamp", "expiresAt"}

\* ------------------------------------------------------------------ C22
\* No entry of the store is past its 24 hours.
NoExpiredStored ==
    \A id \in DOMAIN proofCache : ~IsExpiredAt(proofCache[id], clock)

\* C22: expired credentials are evicted: whenever the store holds a
\* credential whose expiry time has passed, a later state of the running
\* server holds none.
C22_ExpiredEventuallyEvicted ==
    ~NoExpiredStored ~> NoExpiredStored

\* ------------------------------------------------------------------ C23
\* C23: a generate-commitment or generate-proof request that is rejected or
\* that fails (an answer of 400 or above) leaves the store as it was, and so
\* does every generate-commitment request.
C23_RejectedRequestLeavesStore ==
    [][(\/ req'.op = "generate-commitment"
        \/ req'.op \in {"generate-proof", "unparsable"} /\ resp'.status >= 400)
           => proofCache' = proofCache]_vars

\* A generate-proof body without all its fields, or one that is not JSON, was
\* refused by a server that holds a credential.
C23_Witness ==
    /\ DOMAIN proofCache # {}
    /\ \/ IsIssue /\ resp.status = 400
       \/ req.op = "unparsable" /\ resp.status = 500

\* ------------------------------------------------------------------ C24
\* C24: a lookup of a stored id finds a complete credential: the proof, the
\* predicate result, the issuance time and the expiry time are all there,
\* the predicate result is the one of the proof and the expiry time is
\* after the issuance time.
C24_LookupSeesCompleteCredential ==
    OnStored =>
        /\ {"proof", "isEligible", "timestamp", "expiresAt"} \subseteq DOMAIN Cred
        /\ Cred.isEligible = (Cred.proof.publicSignals[1] = "1")
        /\ Cred.expiresAt > Cred.timestamp

\* ------------------------------------------------------------------ C25
\* C25: commit is deterministic: the commitment that a generate-commitment
\* request returns is the one that the server returns for these four
\* attributes at time 0 with an empty store, whatever the time, the store
\* and the earlier requests are.
C25_CommitDeterministic ==
    (IsCommit /\ resp.status = 200) =>
        resp.body.commitment =
            ComputedCommitment(server, req.birth, req.identitySecret)

\* A commitment was returned after the clock has moved and a credential has
\* been stored.
C25_Witness ==
    /\ IsCommit /\ resp.status = 200
    /\ clock > 0
    /\ DOMAIN proofCache # {}

\* ------------------------------------------------------------------ C26
\* The four attributes of a body, as texts.
AttributeTexts(body) ==
    <<TemplateString(body.birthYear), TemplateString(body.birthMonth),
      TemplateString(body.birthDay), TemplateString(body.identitySecret)>>

\* C26: the commitment binds the full attribute set: a body that differs
\* from the body of an answered generate-commitment request in the birth
\* year, month, day or identity secret has another hash input and another
\* commitment.
C26_EncodingInjective ==
    (req.op = "generate-commitment-json" /\ resp.status = 200) =>
        \A other \in AttributeBodies :
            AttributeTexts(other) # AttributeTexts(req.body) =>
                /\ commitmentInput(other) # commitmentInput(req.body)
                /\ commitmentOfBody(other) # resp.body.commitment

\* ------------------------------------------------------------------ C27
\* C27: the age gap-server.js generateZKProof uses, and the predicate result
\* it records, are those of calculateAge (whole years, the birthday reached
\* or not) for every birth date and reference date, the 18th birthday
\* included.
C27_GapAgeIsCalculateAge ==
    (IsIssue /\ server = "gap" /\ resp.status = 200) =>
        LET b   == req.birth
            ref == Today(req.at)
            age == calculateAge(b[1], b[2], b[3], ref[1], ref[2], ref[3])
        IN  /\ gapAge([birth_year |-> b[1], birth_month |-> b[2], birth_day |-> b[3],
                       current_year |-> ref[1], current_month |-> ref[2],
                       current_day |-> ref[3]]) = age
            /\ resp.body.isEligible <=> age >= 18
            /\ proofCache[resp.body.proofId].isEligible <=> age >= 18

\* ------------------------------------------------------------------ C28
\* The answer of the last lookup treats the credential as expired.
TreatedAsExpired ==
    IF IsVerify THEN ~resp.body.isValid
    ELSE "reason" \in DOMAIN resp.body /\ Reason = ReasonExpired

\* C28: a lookup treats a stored credential as expired exactly when the
\* clock at the lookup is strictly after its expiry time: at now = expiresAt
\* it is still valid, at any now > expiresAt it is expired.
C28_ExpiredIffStrictlyAfter ==
    OnStored => (TreatedAsExpired <=> req.at > ExpiresAt(Cred))

\* ------------------------------------------------------------------ C29
\* The betting-eligibility answer of the running server for credential c
\* alone: the answer it gives when c is the only entry of the cache.
FreshAnswer(c, bettingAmount, jurisdiction, t) ==
    LET cache == [k \in {"k"} |-> c]
    IN  IF server = "simple"
        THEN simpleBettingEligibilityResponse(cache, t, "k", bettingAmount, jurisdiction)
        ELSE gapBettingEligibilityResponse(cache, "k", bettingAmount, jurisdiction)

\* The last betting-eligibility answer about a stored credential is the one
\* computed from that credential, the time, the amount and the jurisdiction.
AnswerIsFresh ==
    (IsBetting /\ OnStored) =>
        resp = FreshAnswer(Cred, req.bettingAmount, req.jurisdiction, req.at)

\* C29: verify-proof and betting-eligibility leave the credential store as
\* it is, and no verdict is kept: a betting-eligibility answer is a function
\* of the stored credential, the current time, the amount and the
\* jurisdiction, whatever requests came before, so a credential serves any
\* number of checks inside its window.
C29_LookupsLeaveStore ==
    [][req'.op \in {"verify-proof", "betting-eligibility"}
           => (proofCache' = proofCache /\ AnswerIsFresh')]_vars

\* A credential is answered canBet some time after its issuance, inside its
\* window.
C29_Witness ==
    /\ IsBetting /\ OnStored /\ resp.status = 200 /\ CanBet
    /\ req.at > Cred.timestamp
    /\ ~IsExpiredAt(Cred, req.at)

\* ------------------------------------------------------------------ C30
\* A proof-generation request has been made and has no response yet.
ProofRequestPending ==
    req.op \in {"generate-proof", CompactCall} /\ resp.status = 0

\* C30: every proof-generation request eventually has its response; a
\* backend call that never completes ends in a failure response, the
\* request does not stay pending for ever.
C30_ProofRequestEventuallyAnswered ==
    ProofRequestPending ~> ~ProofRequestPending

\* ------------------------------------------------------------------ C21
\* The fields of a request body that hold the birth date.
BirthDateFields == {"birthYear", "birthMonth", "birthDay"}

\* C21: birth dates never leave the component in plaintext: no request the
\* component sends to the GAP server carries the birth year, month or day.
C21_BirthDateNeverSent ==
    component.fetch.state # "none" =>
        DOMAIN component.fetch.body \cap BirthDateFields = {}

\* ------------------------------------------------------------------ C31
\* The id of the credential the running server issues at time t to holder b
\* (a well-formed body with the holder's own commitment).
IssuedId(b, t) ==
    LET now        == Today(t)
        commitment == ComputedCommitment(server, b, "s1")
    IN  IF server = "simple"
        THEN generateProofId(simpleGenerateZKProof(
                 [identityCommitment |-> commitment,
                  isEligible |-> calculateAge(b[1], b[2], b[3],
                                              now[1], now[2], now[3]) >= 18], t))
        ELSE generateProofId(gapGenerateZKProof(
                 [birth_year |-> b[1], birth_month |-> b[2], birth_day |-> b[3],
                  identity_secret |-> "s1", current_year |-> now[1],
                  current_month |-> now[2], current_day |-> now[3],
                  identity_commitment |-> commitment, min_age |-> 18]))

\* checkBettingEligibility of the running server.
CheckOf(bettingAmount, rules) ==
    IF server = "simple" THEN simpleCheckBettingEligibility(bettingAmount, rules)
    ELSE gapCheckBettingEligibility(bettingAmount, rules)

\* Values a minAge entry of the table could be given.
MinAges == {0, 18, 21, 99}

\* C31: the verdict does not depend on a jurisdiction's minAge entry.  The
\* threshold is 18 everywhere: a holder aged 18 to 20 at issuance who asks
\* with jurisdiction US and an amount within the limit, inside the window,
\* is approved; and the check gives the same verdict whatever the minAge of
\* the resolved table row is.
C31_MinAgeUnused ==
    (IsBetting /\ OnStored) =>
        LET rules == getJurisdictionRules(req.jurisdiction)
        IN  /\ \A b \in MinAgeHolders :
                   (/\ req.proofId = IssuedId(b, Cred.timestamp)
                    /\ WholeYears(b, Today(Cred.timestamp)) \in 18 .. 20
                    /\ req.jurisdiction = Str("US")
                    /\ AmountWithinPolicy(req.bettingAmount, rules)
                    /\ ~IsExpiredAt(Cred, req.at))
                       => (CanBet /\ Reason = ReasonApproved)
            /\ \A m \in MinAges :
                   CheckOf(req.bettingAmount, [rules EXCEPT !.minAge = Num(m)])
                       = CheckOf(req.bettingAmount, rules)

\* ------------------------------------------------------------------ C32
\* C32: in every betting-eligibility response that carries a verdict,
\* canBet is true exactly when eligible is true and exactly when the reason
\* is the approval reason; canBet = true never comes with a denial reason or
\* with eligible = false.
C32_VerdictFieldsAgree ==
    (IsBetting /\ "canBet" \in DOMAIN resp.body) =>
        /\ CanBet <=> resp.body.eligible
        /\ CanBet <=> Reason = ReasonApproved

\* gap-server.js denies an eligible credential for the amount.
C32_Witness ==
    /\ IsBetting /\ OnStored /\ server = "gap"
    /\ Cred.isEligible
    /\ ~CanBet /\ ~resp.body.eligible /\ Reason # ReasonApproved

\* ------------------------------------------------------------------ C33
\* C33: on either server every stored credential's cached isEligible flag
\* is the predicate signal of the proof stored with it (true exactly when
\* proof.publicSignals[0] is "1"), and it is the isEligible value the
\* issuing response returned.
C33_FlagIsPredicateSignal ==
    /\ \A id \in DOMAIN proofCache :
           proofCache[id].isEligible <=> proofCache[id].proof.publicSignals[1] = "1"
    /\ (IsIssue /\ resp.status = 200) =>
           (resp.body.isEligible <=> proofCache[resp.body.proofId].isEligible)

\* A credential of a holder who is 18 or 19 has just been issued and is
\* stored as eligible.
C33_Witness ==
    /\ IsIssue /\ resp.status = 200
    /\ req.birth[1] >= 2005
    /\ resp.body.isEligible
    /\ proofCache[resp.body.proofId].proof.publicSignals[1] = "1"

\* ------------------------------------------------------------------ C34
\* The circuit input gap-server.js builds for commitment c on date d, and
\* the proof hash and the id it gives a request with predicate result e.
HashInput(c, d) ==
    [identity_commitment |-> c, current_year |-> d[1], current_month |-> d[2],
     current_day |-> d[3]]
IdOfTriple(c, e, d) ==
    generateProofId([publicSignals |-> <<e, generateProofHash(HashInput(c, d), e)>>])

\* The commitments, predicate results and issuance dates of other requests.
OtherCommitments == {ComputedCommitment("gap", Adult, "s1"), "bogus"}
OtherDates == {<<2024, 1, 11>>, <<2024, 1, 12>>, <<2024, 11, 1>>, <<2024, 11, 2>>}

\* C34: on gap-server.js the credential id is a function of the identity
\* commitment, the predicate result and the calendar date of issuance only:
\* the id of an issuance is the id of its triple, whatever the birth date
\* and the secret, and a request that differs in one of the three gets
\* another proof hash.
C34_IdIsFunctionOfTriple ==
    (IsIssue /\ server = "gap" /\ resp.status = 200) =>
        LET c == req.identityCommitment
            e == IF resp.body.isEligible THEN "1" ELSE "0"
            d == Today(req.at)
        IN  /\ resp.body.proofId = IdOfTriple(c, e, d)
            /\ \A c2 \in OtherCommitments, e2 \in {"0", "1"}, d2 \in OtherDates :
                   <<c2, e2, d2>> # <<c, e, d>> =>
                       generateProofHash(HashInput(c2, d2), e2) # resp.body.proofHash

\* ------------------------------------------------------------------ C35
\* The last step was a call of a guarded method.
IsGuardedCall == compactVerification.lastCall.method \in GuardedMethods
\* The last step ended a disconnect(), by its return or by its rejection.
DisconnectEnded ==
    /\ compactVerification.lastCall.method = "disconnect"
    /\ compactVerification.lastCall.outcome \in {"returned", "threw"}
\* The last step ended an initialize() that returned true.
InitializeSucceeded ==
    /\ compactVerification.lastCall.method = "initialize"
    /\ compactVerification.lastCall.outcome = "true"

\* C35: CompactAgeVerification refuses work unless initialized.  A guarded
\* method called while the flag is false throws 'Compact not initialized'
\* and does not reach the runtime; the flag is false at the start, becomes
\* true only when an initialize() succeeds, and is false after every
\* disconnect() that has run.
C35_RefusesUnlessInitialized ==
    [][/\ (IsGuardedCall' /\ ~compactVerification.initialized) =>
              /\ compactVerification'.lastCall.outcome = "Compact not initialized"
              /\ compactVerification'.lastCall.runtime = 0
       /\ (compactVerification'.initialized /\ ~compactVerification.initialized) =>
              InitializeSucceeded'
       /\ DisconnectEnded' => ~compactVerification'.initialized]_vars

\* ------------------------------------------------------------------ C36
\* Every initialize() and disconnect() called so far has ended.
CallsEnded ==
    /\ compactVerification.initializing = {}
    /\ compactVerification.disconnecting = {}

C36_HeldRuntimeReady ==
    (CallsEnded /\ compactVerification.initialized) =>
        compactVerification.compact \in compactVerification.ready
C36_ConnectedOnlyWhileInitialized ==
    (CallsEnded /\ getNetworkInfo.provider = "connected") => getNetworkInfo.initialized

\* C36: after any sequence of initialize() and disconnect() calls, failing
\* initialize() calls included, initialized = true implies that the runtime
\* object held in this.compact is one whose initialize() completed, and
\* getNetworkInfo reports provider 'connected' only while initialized is true.
C36_InitializedMeansReadyRuntime ==
    /\ C36_HeldRuntimeReady
    /\ C36_ConnectedOnlyWhileInitialized

\* ------------------------------------------------------------------ C37
\* No request of the component is in flight and none awaits its handler.
NoRequestInFlight == component.fetch.state = "none"
\* generate-commitment has succeeded and the generate-proof call has finished.
RequestsCompleted ==
    /\ NoRequestInFlight
    /\ component.verificationStep # "input"
\* The rendered step offers a control that leads back to 'input'.
CanReturnToInput == ENABLED ResetVerification

C37_LoadingOnlyInFlight == NoRequestInFlight => ~component.loading
C37_LeavesGenerating ==
    RequestsCompleted =>
        \/ component.verificationStep = "verified"
        \/ CanReturnToInput

\* C37: the component never stays in the 'generating' step once its
\* requests have completed: after generate-commitment succeeds and the
\* generate-proof call finishes (success, server error or network failure),
\* the step is 'verified' or the user has an available action leading back
\* to 'input'; and loading is false whenever no request is in flight.
C37_NeverStuckGenerating ==
    /\ C37_LeavesGenerating
    /\ C37_LoadingOnlyInFlight

====
